---- MODULE Spec2Model ----
(***************************************************************************)
(* crostore: a sale notification on one marketplace leads to the listings  *)
(* of the same article on the other marketplaces, which are to be          *)
(* cancelled.  The model covers core.iter_items_to_cancel, the Gmail       *)
(* notification source, the Google Sheets mapping store and the message    *)
(* parsers of the two platforms.                                           *)
(*                                                                         *)
(* Texts on which the code works character by character (message bodies,   *)
(* item ids, crostore ids, cells of the sheet) are sequences of            *)
(* characters; a character outside ASCII is written by its code point      *)
(* ("u5546").  Names that the code only compares (platform codes, column   *)
(* letters, label names) are strings.                                      *)
(*                                                                         *)
(* The generators of the pipeline are frames with a position; pc says      *)
(* where control is.  pc = "consumer" means that control is with the       *)
(* caller of the library; every other value is a step inside the library   *)
(* that runs before control returns to the caller.                         *)
(***************************************************************************)
EXTENDS Naturals, Integers, Sequences, FiniteSets, TLC

VARIABLES
    mail,                \* the Gmail mailbox: the sold notifications, in listing order
    labels,              \* the Gmail labels of the mailbox, in list_label order
    sheet,               \* the spreadsheet: column letter -> the values a read returns
    platform_to_column,  \* GoogleSheetsDataSystem.platform_to_column, in dict order
    pc,                  \* position of control
    core,                \* frame of core.iter_items_to_cancel
    ids,                 \* frame of GmailMailSystem.iter_sold_message_ids
    message,             \* the message iter_sold_messages handed to map()
    rel,                 \* frame of GoogleSheetsDataSystem.iter_related_items
    mut,                 \* frame of GoogleSheetsDataSystem.update / delete
    out,                 \* what the caller received from the current call, in order
    err,                 \* the exception that reached the caller, if any
    calls,               \* the requests issued to the backends since the current call
    hist,                \* per message: times yielded, times modify_message was called
    runs                 \* number of calls made by the caller so far

vars == <<mail, labels, sheet, platform_to_column, pc, core, ids, message, rel,
          mut, out, err, calls, hist, runs>>

(***************************************************************************)
(* Bounds of the model.                                                    *)
(***************************************************************************)
MaxMessages == 3    \* messages in the mailbox
MaxRuns == 2        \* calls of iter_items_to_cancel in one behaviour
MaxRows == 2        \* rows of the sheet in SpecStore

(***************************************************************************)
(* Characters and texts.                                                   *)
(***************************************************************************)
EmptyStr == <<>>

\* the character class [a-zA-Z0-9]
Alnum ==
    {"a", "b", "c", "d", "e", "f", "g", "h", "i", "j", "k", "l", "m",
     "n", "o", "p", "q", "r", "s", "t", "u", "v", "w", "x", "y", "z",
     "A", "B", "C", "D", "E", "F", "G", "H", "I", "J", "K", "L", "M",
     "N", "O", "P", "Q", "R", "S", "T", "U", "V", "W", "X", "Y", "Z",
     "0", "1", "2", "3", "4", "5", "6", "7", "8", "9"}

Min(S) == CHOOSE x \in S : \A y \in S : x <= y

(***************************************************************************)
(* Platforms.  "custom" stands for a further AbstractPlatform              *)
(* implementation registered by the caller; it sends no messages here.     *)
(***************************************************************************)
Platforms == {"mercari", "yahoo_auction", "custom"}

\* Platform.create_item: Item(self, item_id, crostore_id)
create_item(platform, item_id, crostore_id) ==
    [platform |-> platform, item_id |-> item_id, crostore_id |-> crostore_id]

\* Platform.create_message: Message(self, subject, body)
create_message(platform, subject, body) ==
    [platform |-> platform, subject |-> subject, body |-> body]

\* Message._item_id_pattern: the text of the lookbehind, "(?<=...)[a-zA-Z0-9]+"
item_id_pattern(platform) ==
    IF platform = "mercari"
    THEN <<"u5546", "u54C1", "I", "D", " ", ":", " ">>
    ELSE <<"u30AA", "u30FC", "u30AF", "u30B7", "u30E7", "u30F3", "I", "D", "uFF1A">>

\* a match of the pattern may start at position p of body
MatchesAt(marker, body, p) ==
    /\ p > Len(marker)
    /\ p <= Len(body)
    /\ SubSeq(body, p - Len(marker), p - 1) = marker
    /\ body[p] \in Alnum

\* a run that is not greedy: [a-zA-Z0-9] once
RunEnd_one_character(body, p) == p

\* the last position of the greedy run [a-zA-Z0-9]+ that starts at p
RunEnd(body, p) ==
    CHOOSE q \in p..Len(body) :
        /\ \A j \in p..q : body[j] \in Alnum
        /\ q = Len(body) \/ body[q + 1] \notin Alnum

\* re.search(pattern, body): the left-most match, group(0)
re_search(marker, body) ==
    LET starts == {p \in 1..Len(body) : MatchesAt(marker, body, p)}
    IN  IF starts = {}
        THEN [found |-> FALSE, group |-> EmptyStr]
        ELSE [found |-> TRUE,
              group |-> SubSeq(body, Min(starts), RunEnd(body, Min(starts)))]

NoItem == create_item("", EmptyStr, EmptyStr)
NoMessage == create_message("", EmptyStr, EmptyStr)

\* Message.to_item: the item, or ItemIdNotFoundError
to_item(msg) ==
    LET match == re_search(item_id_pattern(msg.platform), msg.body)
    IN  IF match.found
        THEN [ok |-> TRUE, item |-> create_item(msg.platform, match.group, EmptyStr),
              error |-> ""]
        ELSE [ok |-> FALSE, item |-> NoItem, error |-> "ItemIdNotFoundError"]

\* _try_message_to_item without its except clause: the exception of to_item
\* leaves the function
try_message_to_item_propagates(msg) ==
    LET r == to_item(msg)
    IN  IF r.ok
        THEN [ok |-> TRUE, item |-> r.item, raised |-> ""]
        ELSE [ok |-> FALSE, item |-> NoItem, raised |-> r.error]

\* core._try_message_to_item: the item, or None (ok = FALSE) when to_item
\* raises; raised names an exception that leaves the function (none does)
try_message_to_item(msg) ==
    LET r == to_item(msg)
    IN  IF r.ok
        THEN [ok |-> TRUE, item |-> r.item, raised |-> ""]
        ELSE [ok |-> FALSE, item |-> NoItem, raised |-> ""]

(***************************************************************************)
(* The Gmail backend.                                                      *)
(***************************************************************************)
done_label_name == "crostored"
max_results == 100

\* get_sold_mail_query: singledispatch, registered for the two platforms only
get_sold_mail_query(platform) ==
    IF platform \in {"mercari", "yahoo_auction"}
    THEN [ok |-> TRUE, from |-> platform]
    ELSE [ok |-> FALSE, from |-> ""]

\* the ids of the labels named done_label_name
DoneLabelIds(lbls) == {lbls[j].id : j \in {n \in 1..Len(lbls) : lbls[n].name = done_label_name}}

\* the sequence of the elements of 1..n that are in S, ascending
RECURSIVE Ascending(_, _)
Ascending(n, S) ==
    IF n = 0 THEN <<>>
    ELSE IF n \in S THEN Append(Ascending(n - 1, S), n) ELSE Ascending(n - 1, S)

\* list_message with the query 'sold mails of platform' alone
list_message_with_labelled(mbox, lbls, query) ==
    LET hits == {n \in 1..Len(mbox) : mbox[n].platform = query.from}
        all == Ascending(Len(mbox), hits)
    IN  SubSeq(all, 1, IF Len(all) < max_results THEN Len(all) ELSE max_results)

\* list_message with the query 'sold mails of platform AND -{label:crostored}':
\* the ids of at most max_results matching messages
list_message(mbox, lbls, query) ==
    LET hits == {n \in 1..Len(mbox) :
                    /\ mbox[n].platform = query.from
                    /\ mbox[n].labelIds \cap DoneLabelIds(lbls) = {}}
        all == Ascending(Len(mbox), hits)
    IN  SubSeq(all, 1, IF Len(all) < max_results THEN Len(all) ELSE max_results)

\* create_label(label = dict(name = name)): the service gives the label an id
create_label(lbls, name) ==
    LET new == [id |-> Len(lbls) + 1, name |-> name]
    IN  [labels |-> Append(lbls, new), label |-> new]

\* get_donelabel that does not look at the labels there are
get_donelabel_always_creates(lbls) ==
    LET made == create_label(lbls, done_label_name)
    IN  [labels |-> made.labels, donelabel |-> made.label, created |-> 1]

\* GmailMailSystem.get_donelabel: the first label with the name, else a new one
get_donelabel(lbls) ==
    LET named == {n \in 1..Len(lbls) : lbls[n].name = done_label_name}
    IN  IF Cardinality(named) >= 1
        THEN [labels |-> lbls, donelabel |-> lbls[Min(named)], created |-> 0]
        ELSE LET made == create_label(lbls, done_label_name)
             IN  [labels |-> made.labels, donelabel |-> made.label, created |-> 1]

\* a request that labels the whole mailbox
modify_message_all(mbox, id, label) ==
    [n \in 1..Len(mbox) |-> [mbox[n] EXCEPT !.labelIds = @ \cup {label}]]

\* {header["name"]: header["value"] for header in payload["headers"]}
\* .get(name, default): the value of the last header with the name
headers_get(headers, name, default) ==
    LET named == {n \in 1..Len(headers) : headers[n].name = name}
    IN  IF named = {}
        THEN default
        ELSE headers[CHOOSE n \in named : \A m \in named : m <= n].value

\* modify_message(id, add_label_ids = [label])
modify_message(mbox, id, label) ==
    [mbox EXCEPT ![id].labelIds = @ \cup {label}]

(***************************************************************************)
(* The Google Sheets backend.  A column read returns the cells down to the *)
(* last one that is not empty, and no "values" at all for an empty column. *)
(***************************************************************************)
Columns == {"A", "B", "C", "D"}
crostore_id_column == "A"

RECURSIVE Trim(_)
Trim(cells) ==
    IF cells = <<>> THEN <<>>
    ELSE IF cells[Len(cells)] = EmptyStr THEN Trim(SubSeq(cells, 1, Len(cells) - 1))
    ELSE cells

\* spreadsheets().values().get(range = column:column, majorDimension = COLUMNS)
values_get(sh, column) ==
    IF sh[column] = <<>>
    THEN [has_values |-> FALSE, values |-> <<>>]
    ELSE [has_values |-> TRUE, values |-> <<sh[column]>>]

\* get_values: response.get("values", [[]])
get_values(sh, column) ==
    LET response == values_get(sh, column)
    IN  IF response.has_values THEN response.values ELSE << <<>> >>

\* a read that returns the cells from the bottom up
get_column_values_bottom_up(sh, column) ==
    LET cells == get_values(sh, column)[1]
    IN  [n \in 1..Len(cells) |-> cells[Len(cells) + 1 - n]]

\* GoogleSheetsDataSystem.get_column_values: list(values[0])
get_column_values(sh, column) == get_values(sh, column)[1]

\* the cell (column, row) set to value; row is 1-based as in A1 notation
SetCell(sh, column, row, value) ==
    LET old == sh[column]
        n == IF row > Len(old) THEN row ELSE Len(old)
    IN  [sh EXCEPT ![column] =
            Trim([j \in 1..n |->
                    IF j = row THEN value
                    ELSE IF j <= Len(old) THEN old[j] ELSE EmptyStr])]

\* valueInputOption = "USER_ENTERED" (line 169): the value is taken as if it
\* were typed into the cell, so a text of digits is entered as a number; a
\* read renders the cell with valueRenderOption = "FORMATTED_VALUE" (line 44),
\* for a number its digits without the leading zeros.  user_entered(value) is
\* the text a read gives for the cell value was written to.
Digits == {"0", "1", "2", "3", "4", "5", "6", "7", "8", "9"}

IsNumber(text) == text # <<>> /\ \A n \in 1..Len(text) : text[n] \in Digits

RECURSIVE StripZeros(_)
StripZeros(text) ==
    IF Len(text) > 1 /\ text[1] = "0" THEN StripZeros(Tail(text)) ELSE text

user_entered(value) == IF IsNumber(value) THEN StripZeros(value) ELSE value

\* an update that writes the cell of the row below
values_update_row_below(sh, column, row, value) ==
    SetCell(sh, column, row + 1, user_entered(value))

\* spreadsheets().values().update(range = cell, values = [[value]],
\* valueInputOption = "USER_ENTERED")
values_update(sh, column, row, value) == SetCell(sh, column, row, user_entered(value))

\* a clear that removes the whole row: the rows below move up
values_clear_removes_row(sh, column, row) ==
    [c \in Columns |->
        IF row <= Len(sh[c])
        THEN SubSeq(sh[c], 1, row - 1) \o SubSeq(sh[c], row + 1, Len(sh[c]))
        ELSE sh[c]]

\* spreadsheets().values().clear(range = cell)
values_clear(sh, column, row) == SetCell(sh, column, row, EmptyStr)

\* an index that answers the last occurrence
index_of_last(list, x) ==
    LET at == {n \in 1..Len(list) : list[n] = x}
    IN  IF at = {} THEN [found |-> FALSE, index |-> 0]
        ELSE [found |-> TRUE, index |-> (CHOOSE n \in at : \A k \in at : k <= n) - 1]

\* an index that answers 0 for an element that is not in the list
index_or_first(list, x) ==
    LET at == {n \in 1..Len(list) : list[n] = x}
    IN  IF at = {} THEN [found |-> TRUE, index |-> 0]
        ELSE [found |-> TRUE, index |-> Min(at) - 1]

\* list.index(x): the 0-based index of the first element equal to x, or ValueError
index(list, x) ==
    LET at == {n \in 1..Len(list) : list[n] = x}
    IN  IF at = {} THEN [found |-> FALSE, index |-> 0]
        ELSE [found |-> TRUE, index |-> Min(at) - 1]

\* item.platform in self.platform_to_column
supported(p2c, platform) == \E n \in 1..Len(p2c) : p2c[n].platform = platform


\* self.platform_to_column[platform]
column_of(p2c, platform) ==
    p2c[CHOOSE n \in 1..Len(p2c) : p2c[n].platform = platform].column

\* list[i] with a 0-based i: the element, or IndexError
getitem(list, i) ==
    IF i + 1 <= Len(list)
    THEN [ok |-> TRUE, value |-> list[i + 1]]
    ELSE [ok |-> FALSE, value |-> EmptyStr]

(***************************************************************************)
(* Frames and records.                                                     *)
(***************************************************************************)
NoErr == [kind |-> "", cause |-> ""]

NoCalls ==
    [list_message |-> 0, list_label |-> 0, create_label |-> 0,
     get_message |-> <<>>, modify_message |-> <<>>,
     get_column_values |-> <<>>, update |-> <<>>, clear |-> <<>>]

CoreNone == [state |-> "none", platform |-> ""]
\* the data system is used without the pipeline
CoreAbsent == [state |-> "absent", platform |-> ""]
IdsNone == [state |-> "none", messages |-> <<>>, i |-> 0, donelabel |-> 0]
RelNone ==
    [state |-> "none", caller |-> "", item |-> NoItem, crostre_id |-> <<>>,
     data |-> <<>>, item_index |-> 0, k |-> 0]
MutNone == [state |-> "none", op |-> "", item |-> NoItem, item_index |-> 0]

(***************************************************************************)
(* Control leaves the library.                                             *)
(***************************************************************************)
\* an exception leaves iter_items_to_cancel
CoreRaises(kind, cause) ==
    /\ core' = [core EXCEPT !.state = "raised"]
    /\ err' = [kind |-> kind, cause |-> cause]
    /\ pc' = "consumer"

\* the for loop over sold_items is exhausted: the generator returns
CoreReturns ==
    /\ core' = [core EXCEPT !.state = "finished"]
    /\ err' = err
    /\ pc' = "consumer"

(***************************************************************************)
(* core.iter_items_to_cancel, seen from its caller.                        *)
(***************************************************************************)
\* iter_items_to_cancel as a plain function: the messages are listed at the call
iter_items_to_cancel_eager(platform) ==
    /\ pc = "consumer"
    /\ core.state \in {"none", "finished", "raised", "closed"}
    /\ runs < MaxRuns
    /\ runs' = runs + 1
    /\ core' = [state |-> "created", platform |-> platform]
    /\ ids' = IdsNone
    /\ rel' = RelNone
    /\ message' = NoMessage
    /\ out' = <<>>
    /\ err' = NoErr
    /\ calls' = [NoCalls EXCEPT !.list_message = 1]
    /\ UNCHANGED <<mail, labels, sheet, platform_to_column, pc, mut, hist>>

\* the call: a generator function runs nothing of its body yet
iter_items_to_cancel(platform) ==
    /\ pc = "consumer"
    /\ core.state \in {"none", "finished", "raised", "closed"}
    /\ runs < MaxRuns
    /\ runs' = runs + 1
    /\ core' = [state |-> "created", platform |-> platform]
    /\ ids' = IdsNone
    /\ rel' = RelNone
    /\ message' = NoMessage
    /\ out' = <<>>
    /\ err' = NoErr
    /\ calls' = NoCalls
    /\ UNCHANGED <<mail, labels, sheet, platform_to_column, pc, mut, hist>>

\* next() on the generator: lines 55-57 build the lazy map/filter chain, the
\* for loop asks for the first sold item; after a yield the inner loop goes on
Advance ==
    /\ pc = "consumer"
    /\ core.state \in {"created", "suspended"}
    /\ pc' = IF core.state = "created" THEN "sold_messages" ELSE "related_next"
    /\ core' = [core EXCEPT !.state = "running"]
    /\ ids' = IF core.state = "created" THEN [ids EXCEPT !.state = "created"] ELSE ids
    /\ UNCHANGED <<mail, labels, sheet, platform_to_column, message, rel, mut,
                   out, err, calls, hist, runs>>

\* a close that runs the statement after the yield, as a finally clause would
CloseLabels ==
    /\ pc = "consumer"
    /\ core.state \in {"created", "suspended"}
    /\ core' = [core EXCEPT !.state = "closed"]
    /\ mail' = IF ids.state = "suspended"
               THEN modify_message(mail, ids.messages[ids.i], ids.donelabel)
               ELSE mail
    /\ UNCHANGED <<labels, sheet, platform_to_column, pc, ids, message, rel,
                   mut, out, err, calls, hist, runs>>

\* the caller stops iterating: the suspended generators are closed at their
\* yield, no statement after the yield runs
Close ==
    /\ pc = "consumer"
    /\ core.state \in {"created", "suspended"}
    /\ core' = [core EXCEPT !.state = "closed"]
    /\ UNCHANGED <<mail, labels, sheet, platform_to_column, pc, ids, message, rel,
                   mut, out, err, calls, hist, runs>>

(***************************************************************************)
(* GmailMailSystem.iter_sold_message_ids and iter_sold_messages.           *)
(***************************************************************************)
\* the for loop of iter_sold_message_ids goes to its next message: it yields
\* the id to iter_sold_messages, or the generators of the chain are exhausted
IdsLoop(i) ==
    IF i <= Len(ids'.messages)
    THEN /\ pc' = "get_message"
         /\ UNCHANGED <<core, err>>
    ELSE CoreReturns

\* filter() asks map() asks iter_sold_messages for the next message:
\* iter_sold_message_ids starts (lines 300-306) or resumes after its yield
\* (lines 310-316: the done label is added to the message yielded before)
SoldMessagesNext ==
    /\ pc = "sold_messages"
    /\ IF ids.state = "created"
       THEN LET query == get_sold_mail_query(core.platform)
            IN  IF query.ok
                THEN /\ ids' = [ids EXCEPT !.state = "listed",
                                           !.messages = list_message(mail, labels, query)]
                     /\ calls' = [calls EXCEPT !.list_message = @ + 1]
                     /\ pc' = "get_donelabel"
                     /\ UNCHANGED <<core, err, mail, hist>>
                ELSE /\ CoreRaises("ValueError", "query_unsupported_platform")
                     /\ UNCHANGED <<ids, calls, mail, hist>>
       ELSE LET id == ids.messages[ids.i]
            IN  /\ mail' = modify_message(mail, id, ids.donelabel)
                /\ calls' = [calls EXCEPT !.modify_message = Append(@, id)]
                /\ hist' = [hist EXCEPT ![id].modified = @ + 1]
                /\ ids' = [ids EXCEPT !.i = @ + 1,
                                      !.state = IF ids.i + 1 <= Len(ids.messages)
                                                THEN "suspended" ELSE "finished"]
                /\ IdsLoop(ids.i + 1)
    /\ UNCHANGED <<labels, sheet, platform_to_column, message, rel, mut, out, runs>>

\* line 307, donelabel = self.get_donelabel(): the request that lists the
\* labels (get_donelabel, lines 282-287).  With a label of the name the
\* function returns it and the loop makes its first turn; without one the
\* request that creates the label is next
GetDonelabel ==
    /\ pc = "get_donelabel"
    /\ calls' = [calls EXCEPT !.list_label = @ + 1]
    /\ LET got == get_donelabel(labels)
       IN  IF got.created = 0
           THEN /\ ids' = [ids EXCEPT !.donelabel = got.donelabel.id, !.i = 1,
                                      !.state = IF 1 <= Len(ids.messages)
                                                THEN "suspended" ELSE "finished"]
                /\ IdsLoop(1)
           ELSE /\ pc' = "create_label"
                /\ UNCHANGED <<ids, core, err>>
    /\ UNCHANGED <<mail, labels, sheet, platform_to_column, message, rel, mut, out,
                   hist, runs>>

\* get_donelabel, lines 288-294: the request that creates the label, then
\* the first turn of the loop of iter_sold_message_ids
CreateLabel ==
    /\ pc = "create_label"
    /\ LET made == create_label(labels, done_label_name)
       IN  /\ labels' = made.labels
           /\ calls' = [calls EXCEPT !.create_label = @ + 1]
           /\ ids' = [ids EXCEPT !.donelabel = made.label.id, !.i = 1,
                                 !.state = IF 1 <= Len(ids.messages)
                                           THEN "suspended" ELSE "finished"]
    /\ IdsLoop(1)
    /\ UNCHANGED <<mail, sheet, platform_to_column, message, rel, mut, out, hist, runs>>

\* iter_sold_messages, lines 323-334: fetch the message, decode its body and
\* yield the Message to map(); a payload that cannot be decoded is logged and
\* the loop goes to the next id
GetMessage ==
    /\ pc = "get_message"
    /\ LET id == ids.messages[ids.i]
       IN  /\ calls' = [calls EXCEPT !.get_message = Append(@, id)]
           /\ IF mail[id].decodable
              THEN /\ message' = create_message(core.platform,
                                                headers_get(mail[id].headers, "subject",
                                                            EmptyStr),
                                                mail[id].body)
                   /\ hist' = [hist EXCEPT ![id].yielded = @ + 1]
                   /\ pc' = "try_message_to_item"
              ELSE /\ message' = NoMessage
                   /\ hist' = hist
                   /\ pc' = "sold_messages"
    /\ UNCHANGED <<mail, labels, sheet, platform_to_column, core, ids, rel, mut,
                   out, err, runs>>

(***************************************************************************)
(* core: map(_try_message_to_item, ...), filter(None, ...) and the loops.  *)
(***************************************************************************)
\* lines 56-59: the message becomes an item and ds.iter_related_items(item) is
\* called and advanced, or it becomes None and filter() asks for the next one
TryMessageToItem ==
    /\ pc = "try_message_to_item"
    /\ LET r == try_message_to_item(message)
       IN  IF r.raised # ""
           THEN /\ rel' = rel
                /\ CoreRaises(r.raised, "to_item")
           ELSE IF r.ok
           THEN /\ rel' = [RelNone EXCEPT !.state = "created", !.caller = "core",
                                          !.item = r.item]
                /\ pc' = "related_start"
                /\ UNCHANGED <<core, err>>
           ELSE /\ rel' = rel
                /\ pc' = "sold_messages"
                /\ UNCHANGED <<core, err>>
    /\ UNCHANGED <<mail, labels, sheet, platform_to_column, ids, message, mut,
                   out, calls, hist, runs>>

(***************************************************************************)
(* GoogleSheetsDataSystem.iter_related_items, a generator.  Its caller is  *)
(* the inner for loop of iter_items_to_cancel, or the user of the library. *)
(***************************************************************************)
\* a loop that collects the item and goes on without handing it to its caller
RelYieldsAndGoesOn(item) ==
    /\ out' = Append(out, [item |-> item,
                           msg |-> IF rel.caller = "core" THEN ids.messages[ids.i] ELSE 0])
    /\ core' = core
    /\ err' = err
    /\ pc' = "related_next"

\* the generator yields item to its caller; the loop of iter_items_to_cancel
\* yields it on (line 60).  msg is the message the item stems from (0: none).
RelYields(item) ==
    /\ out' = Append(out, [item |-> item,
                           msg |-> IF rel.caller = "core" THEN ids.messages[ids.i] ELSE 0])
    /\ core' = IF rel.caller = "core" THEN [core EXCEPT !.state = "suspended"] ELSE core
    /\ err' = err
    /\ pc' = "consumer"

\* the loop over sold_items left after the first item without related items
RelReturnsEndsRun ==
    /\ out' = out
    /\ core' = IF rel.caller = "core" THEN [core EXCEPT !.state = "finished"] ELSE core
    /\ err' = err
    /\ pc' = "consumer"

\* the generator returns: the for loop over sold_items asks for the next item
RelReturns ==
    /\ out' = out
    /\ core' = core
    /\ err' = err
    /\ pc' = IF rel.caller = "core" THEN "sold_messages" ELSE "consumer"

\* an exception of the generator caught by its caller, which goes on
RelRaisesAbsorbed(kind, cause) ==
    /\ out' = out
    /\ core' = core
    /\ err' = err
    /\ pc' = IF rel.caller = "core" THEN "sold_messages" ELSE "consumer"

\* an exception leaves the generator, and iter_items_to_cancel with it
RelRaises(kind, cause) ==
    /\ out' = out
    /\ core' = IF rel.caller = "core" THEN [core EXCEPT !.state = "raised"] ELSE core
    /\ err' = [kind |-> kind, cause |-> cause]
    /\ pc' = "consumer"

\* the exception for an item whose platform has no column (lines 126-127)
unsupported_platform_error == [kind |-> "ValueError", cause |-> "unsupported_platform"]

\* the crostore id column read before the platform is checked
RelatedStartReadsFirst ==
    /\ pc = "related_start"
    /\ calls' = [calls EXCEPT !.get_column_values = Append(@, crostore_id_column)]
    /\ IF ~supported(platform_to_column, rel.item.platform)
       THEN /\ rel' = [rel EXCEPT !.state = "raised"]
            /\ RelRaises(unsupported_platform_error.kind, unsupported_platform_error.cause)
       ELSE /\ rel' = [rel EXCEPT !.state = "running",
                                  !.crostre_id = get_column_values(sheet, crostore_id_column)]
            /\ pc' = "related_read"
            /\ UNCHANGED <<out, core, err>>
    /\ UNCHANGED <<mail, labels, sheet, platform_to_column, ids, message, mut, hist, runs>>

\* lines 126-128: the platform is checked, then the crostore id column is read
RelatedStart ==
    /\ pc = "related_start"
    /\ IF ~supported(platform_to_column, rel.item.platform)
       THEN /\ rel' = [rel EXCEPT !.state = "raised"]
            /\ calls' = calls
            /\ RelRaises(unsupported_platform_error.kind, unsupported_platform_error.cause)
       ELSE /\ rel' = [rel EXCEPT !.state = "running",
                                  !.crostre_id = get_column_values(sheet, crostore_id_column)]
            /\ calls' = [calls EXCEPT !.get_column_values = Append(@, crostore_id_column)]
            /\ pc' = "related_read"
            /\ UNCHANGED <<out, core, err>>
    /\ UNCHANGED <<mail, labels, sheet, platform_to_column, ids, message, mut, hist, runs>>

\* lines 129-132: one turn of the dict comprehension, one column read
RelatedRead ==
    /\ pc = "related_read"
    /\ LET n == Len(rel.data) + 1
           column == platform_to_column[n].column
       IN  /\ rel' = [rel EXCEPT !.data = Append(@, get_column_values(sheet, column))]
           /\ calls' = [calls EXCEPT !.get_column_values = Append(@, column)]
           /\ pc' = IF n = Len(platform_to_column) THEN "related_locate" ELSE "related_read"
    /\ UNCHANGED <<mail, labels, sheet, platform_to_column, core, ids, message, mut,
                   out, err, hist, runs>>

\* data[platform]
data_of(p2c, data, platform) ==
    data[CHOOSE n \in 1..Len(p2c) : p2c[n].platform = platform]

\* a resolution that consumes the row it found: the cell of the item is cleared
RelatedLocateClearsCell ==
    /\ pc = "related_locate"
    /\ LET at == index(data_of(platform_to_column, rel.data, rel.item.platform),
                       rel.item.item_id)
       IN  IF at.found
           THEN /\ rel' = [rel EXCEPT !.item_index = at.index]
                /\ sheet' = values_clear(sheet,
                                         column_of(platform_to_column, rel.item.platform),
                                         at.index + 1)
                /\ pc' = "related_next"
                /\ UNCHANGED <<out, core, err>>
           ELSE /\ rel' = [rel EXCEPT !.state = "finished"]
                /\ sheet' = sheet
                /\ RelReturns
    /\ UNCHANGED <<mail, labels, platform_to_column, ids, message, mut,
                   calls, hist, runs>>

\* lines 133-137: the row of the item, or the generator returns
RelatedLocate ==
    /\ pc = "related_locate"
    /\ LET at == index(data_of(platform_to_column, rel.data, rel.item.platform),
                       rel.item.item_id)
       IN  IF at.found
           THEN /\ rel' = [rel EXCEPT !.item_index = at.index]
                /\ pc' = "related_next"
                /\ UNCHANGED <<out, core, err>>
           ELSE /\ rel' = [rel EXCEPT !.state = "finished"]
                /\ RelReturns
    /\ UNCHANGED <<mail, labels, sheet, platform_to_column, ids, message, mut,
                   calls, hist, runs>>

\* the loop of line 138 without its filter: every platform of platform_to_column
next_platform_unfiltered(p2c, platform, k) ==
    IF k + 1 <= Len(p2c) THEN k + 1 ELSE 0

\* the position in platform_to_column of the next platform after k that the
\* filter of line 138 lets through, 0 if there is none
next_platform(p2c, platform, k) ==
    LET S == {n \in (k + 1)..Len(p2c) : p2c[n].platform # platform}
    IN  IF S = {} THEN 0 ELSE Min(S)

\* the related item with the crostore id taken from the row below
related_item_crostore_id_below(p2c, data, crostre_id, item_index, n) ==
    LET item_id == getitem(data[n], item_index)
        crostore_id == getitem(crostre_id, item_index + 1)
    IN  IF item_id.ok /\ crostore_id.ok
        THEN [ok |-> TRUE,
              item |-> create_item(p2c[n].platform, item_id.value, crostore_id.value)]
        ELSE [ok |-> FALSE, item |-> NoItem]

\* the related item with the item id taken from the row below
related_item_row_below(p2c, data, crostre_id, item_index, n) ==
    LET item_id == getitem(data[n], item_index + 1)
        crostore_id == getitem(crostre_id, item_index)
    IN  IF item_id.ok /\ crostore_id.ok
        THEN [ok |-> TRUE,
              item |-> create_item(p2c[n].platform, item_id.value, crostore_id.value)]
        ELSE [ok |-> FALSE, item |-> NoItem]

\* lines 141-144: the related item of the platform at position n, or IndexError
related_item(p2c, data, crostre_id, item_index, n) ==
    LET item_id == getitem(data[n], item_index)
        crostore_id == getitem(crostre_id, item_index)
    IN  IF item_id.ok /\ crostore_id.ok
        THEN [ok |-> TRUE,
              item |-> create_item(p2c[n].platform, item_id.value, crostore_id.value)]
        ELSE [ok |-> FALSE, item |-> NoItem]

\* lines 138-144: one turn of the loop over the other platforms
RelatedNext ==
    /\ pc = "related_next"
    /\ LET n == next_platform(platform_to_column, rel.item.platform, rel.k)
       IN  IF n = 0
           THEN /\ rel' = [rel EXCEPT !.state = "finished"]
                /\ RelReturns
           ELSE LET r == related_item(platform_to_column, rel.data, rel.crostre_id,
                                      rel.item_index, n)
                IN  IF r.ok
                    THEN /\ rel' = [rel EXCEPT !.state = "suspended", !.k = n]
                         /\ RelYields(r.item)
                    ELSE /\ rel' = [rel EXCEPT !.state = "raised", !.k = n]
                         /\ RelRaises("IndexError", "list_index_out_of_range")
    /\ UNCHANGED <<mail, labels, sheet, platform_to_column, ids, message, mut,
                   calls, hist, runs>>

(***************************************************************************)
(* The data system used directly.                                          *)
(***************************************************************************)
DataSystemIdle ==
    /\ pc = "consumer"
    /\ core.state = "absent"
    /\ rel.state = "none"
    /\ mut.state = "none"

\* the call ds.iter_related_items(item): nothing of the body runs yet
iter_related_items(item) ==
    /\ DataSystemIdle
    /\ rel' = [RelNone EXCEPT !.state = "created", !.caller = "consumer", !.item = item]
    /\ UNCHANGED <<mail, labels, sheet, platform_to_column, pc, core, ids, message,
                   mut, out, err, calls, hist, runs>>

\* next() on the generator of iter_related_items
AdvanceRelated ==
    /\ pc = "consumer"
    /\ rel.caller = "consumer"
    /\ rel.state \in {"created", "suspended"}
    /\ pc' = IF rel.state = "created" THEN "related_start" ELSE "related_next"
    /\ UNCHANGED <<mail, labels, sheet, platform_to_column, core, ids, message, rel,
                   mut, out, err, calls, hist, runs>>

\* the exceptions of update and delete (lines 147-156, 173-182)
empty_crostore_id_error == [kind |-> "ValueError", cause |-> "empty_crostore_id"]
crostore_id_not_found_error == [kind |-> "ValueError", cause |-> "crostore_id_not_found"]

\* update / delete without the check of crostore_id
MutateUnchecked(op, item) ==
    /\ DataSystemIdle
    /\ mut' = [MutNone EXCEPT !.state = "running", !.op = op, !.item = item]
    /\ err' = NoErr
    /\ pc' = "mutate_read"
    /\ UNCHANGED <<mail, labels, sheet, platform_to_column, core, ids, message, rel,
                   out, calls, hist, runs>>

\* update(item) / delete(item), lines 147-148 / 173-174: the check of crostore_id
Mutate(op, item) ==
    /\ DataSystemIdle
    /\ IF item.crostore_id = EmptyStr
       THEN /\ mut' = [MutNone EXCEPT !.state = "raised", !.op = op, !.item = item]
            /\ err' = empty_crostore_id_error
            /\ pc' = "consumer"
       ELSE /\ mut' = [MutNone EXCEPT !.state = "running", !.op = op, !.item = item]
            /\ err' = NoErr
            /\ pc' = "mutate_read"
    /\ UNCHANGED <<mail, labels, sheet, platform_to_column, core, ids, message, rel,
                   out, calls, hist, runs>>

update(item) == Mutate("update", item)

delete(item) == Mutate("delete", item)

\* lines 149-156 / 175-182: the crostore id column is read and the row located
MutateRead ==
    /\ pc = "mutate_read"
    /\ calls' = [calls EXCEPT !.get_column_values = Append(@, crostore_id_column)]
    /\ LET at == index(get_column_values(sheet, crostore_id_column), mut.item.crostore_id)
       IN  IF at.found
           THEN /\ mut' = [mut EXCEPT !.item_index = at.index]
                /\ pc' = "mutate_write"
                /\ err' = err
           ELSE /\ mut' = [mut EXCEPT !.state = "raised"]
                /\ pc' = "consumer"
                /\ err' = crostore_id_not_found_error
    /\ UNCHANGED <<mail, labels, sheet, platform_to_column, core, ids, message, rel,
                   out, hist, runs>>

\* a write that locates the row again in the sheet as it is now
MutateWriteLocatesAgain ==
    /\ pc = "mutate_write"
    /\ IF ~supported(platform_to_column, mut.item.platform)
       THEN /\ mut' = [mut EXCEPT !.state = "raised"]
            /\ err' = [kind |-> "KeyError", cause |-> "platform_to_column_key"]
            /\ UNCHANGED <<sheet, calls>>
       ELSE LET at == index(get_column_values(sheet, crostore_id_column),
                            mut.item.crostore_id)
                cell == [column |-> column_of(platform_to_column, mut.item.platform),
                         row |-> IF at.found THEN at.index + 1 ELSE mut.item_index + 1]
            IN  /\ mut' = [mut EXCEPT !.state = "finished"]
                /\ err' = err
                /\ IF mut.op = "update"
                   THEN /\ sheet' = values_update(sheet, cell.column, cell.row,
                                                  mut.item.item_id)
                        /\ calls' = [calls EXCEPT !.update =
                                        Append(@, [cell |-> cell, value |-> mut.item.item_id])]
                   ELSE /\ sheet' = values_clear(sheet, cell.column, cell.row)
                        /\ calls' = [calls EXCEPT !.clear = Append(@, [cell |-> cell])]
    /\ pc' = "consumer"
    /\ UNCHANGED <<mail, labels, platform_to_column, core, ids, message, rel,
                   out, hist, runs>>

\* lines 158-170 / 184-193: the request that writes or clears the cell
MutateWrite ==
    /\ pc = "mutate_write"
    /\ IF ~supported(platform_to_column, mut.item.platform)
       THEN /\ mut' = [mut EXCEPT !.state = "raised"]
            /\ err' = [kind |-> "KeyError", cause |-> "platform_to_column_key"]
            /\ UNCHANGED <<sheet, calls>>
       ELSE LET cell == [column |-> column_of(platform_to_column, mut.item.platform),
                         row |-> mut.item_index + 1]
            IN  /\ mut' = [mut EXCEPT !.state = "finished"]
                /\ err' = err
                /\ IF mut.op = "update"
                   THEN /\ sheet' = values_update(sheet, cell.column, cell.row,
                                                  mut.item.item_id)
                        /\ calls' = [calls EXCEPT !.update =
                                        Append(@, [cell |-> cell, value |-> mut.item.item_id])]
                   ELSE /\ sheet' = values_clear(sheet, cell.column, cell.row)
                        /\ calls' = [calls EXCEPT !.clear = Append(@, [cell |-> cell])]
    /\ pc' = "consumer"
    /\ UNCHANGED <<mail, labels, platform_to_column, core, ids, message, rel,
                   out, hist, runs>>

\* the user of the data system is done with the call: the generator is dropped
\* where it stands (closed at its yield), the result or the exception forgotten
Discard ==
    /\ pc = "consumer"
    /\ core.state = "absent"
    /\ \/ rel.state \in {"created", "suspended", "finished", "raised"}
       \/ mut.state \in {"finished", "raised"}
    /\ rel' = RelNone
    /\ mut' = MutNone
    /\ out' = <<>>
    /\ err' = NoErr
    /\ calls' = NoCalls
    /\ UNCHANGED <<mail, labels, sheet, platform_to_column, pc, core, ids, message,
                   hist, runs>>

(***************************************************************************)
(* Inputs: texts, messages, sheets and configurations.                     *)
(***************************************************************************)
c00007 == <<"c", "0", "0", "0", "0", "7">>
c00008 == <<"c", "0", "0", "0", "0", "8">>
A007 == <<"A", "0", "0", "7">>
A008 == <<"A", "0", "0", "8">>
B007 == <<"B", "0", "0", "7">>
B008 == <<"B", "0", "0", "8">>
D007 == <<"D", "0", "0", "7">>
\* an item id of digits only: "[a-zA-Z0-9]+" admits it
N007 == <<"0", "0", "7">>

\* a notification in the mailbox: its sender, whether its payload decodes, its text
Notification(platform, headers, decodable, body) ==
    [platform |-> platform, headers |-> headers, decodable |-> decodable,
     body |-> body, labelIds |-> {}]

\* a header of a message
Header(name, value) == [name |-> name, value |-> value]

\* the text of a subject header
message0 == <<"m", "e", "s", "s", "a", "g", "e", "0">>

MessageKinds ==
    {Notification("mercari", <<Header("subject", message0)>>, TRUE,
                  item_id_pattern("mercari") \o A007),
     Notification("mercari", <<Header("Subject", message0)>>, TRUE,
                  <<"!">> \o item_id_pattern("mercari") \o A008 \o <<".">>),
     Notification("mercari", <<>>, TRUE, item_id_pattern("mercari")),
     Notification("mercari", <<Header("subject", message0)>>, FALSE, EmptyStr),
     Notification("yahoo_auction",
                  <<Header("subject", EmptyStr), Header("subject", message0)>>, TRUE,
                  item_id_pattern("yahoo_auction") \o B007)}

Mailboxes == UNION {[1..n -> MessageKinds] : n \in 0..MaxMessages}

LabelLists ==
    {<<[id |-> 1, name |-> "INBOX"]>>,
     <<[id |-> 1, name |-> "INBOX"], [id |-> 2, name |-> done_label_name]>>}

Entry(platform, column) == [platform |-> platform, column |-> column]

\* the configuration of the tests, and one with a third platform
TwoPlatforms == <<Entry("mercari", "B"), Entry("yahoo_auction", "C")>>
ThreePlatforms == <<Entry("yahoo_auction", "C"), Entry("mercari", "B"), Entry("custom", "D")>>
Configs == {TwoPlatforms, ThreePlatforms}

Sheet(a, b, c, d) == [column \in Columns |->
    CASE column = "A" -> a [] column = "B" -> b [] column = "C" -> c [] OTHER -> d]

\* the sheets of the pipeline; the configuration with three platforms is
\* explored with the sheet that has a cell in column D
PipelineSheets(p2c) ==
    {Sheet(<<c00007, c00008>>, <<A007, A008>>, <<B007, B008>>, <<D007>>)}
    \cup (IF Len(p2c) = 2 THEN {Sheet(<<c00007>>, <<A007>>, <<B007>>, <<>>)} ELSE {})

\* the columns a read can return: at most n cells, the last one not empty
ColumnsOver(V, n) ==
    {cells \in UNION {[1..k -> V \cup {EmptyStr}] : k \in 0..n} :
        cells = <<>> \/ cells[Len(cells)] # EmptyStr}

\* the crostore ids and the item ids in use; the configuration with three
\* platforms is explored with one id per column
CrostoreIds(p2c) == IF Len(p2c) = 2 THEN {c00007, c00008} ELSE {c00007}

ItemIds(p2c, platform) ==
    CASE platform = "mercari" -> IF Len(p2c) = 2 THEN {A007, A008} ELSE {A007}
      [] platform = "yahoo_auction" -> {B007}
      [] OTHER -> {D007}

StoreSheets(p2c) ==
    {Sheet(a, b, c, d) :
        a \in ColumnsOver(CrostoreIds(p2c), MaxRows),
        b \in ColumnsOver(ItemIds(p2c, "mercari"), MaxRows),
        c \in ColumnsOver(ItemIds(p2c, "yahoo_auction"), MaxRows),
        d \in IF Len(p2c) = 2 THEN {<<>>}
              ELSE ColumnsOver(ItemIds(p2c, "custom"), MaxRows)}

StoreItems(p2c) ==
    UNION {{create_item(platform, item_id, crostore_id) :
                item_id \in ItemIds(p2c, platform),
                crostore_id \in {EmptyStr} \cup CrostoreIds(p2c)} :
           platform \in Platforms}

(***************************************************************************)
(* The specifications.                                                     *)
(***************************************************************************)
InitCommon ==
    /\ pc = "consumer"
    /\ ids = IdsNone
    /\ message = NoMessage
    /\ rel = RelNone
    /\ mut = MutNone
    /\ out = <<>>
    /\ err = NoErr
    /\ calls = NoCalls
    /\ runs = 0

\* the pipeline: a mailbox, a sheet, and a caller of iter_items_to_cancel
Init ==
    /\ mail \in Mailboxes
    /\ labels \in LabelLists
    /\ platform_to_column \in Configs
    /\ sheet \in PipelineSheets(platform_to_column)
    /\ hist = [n \in 1..Len(mail) |-> [yielded |-> 0, modified |-> 0]]
    /\ core = CoreNone
    /\ InitCommon

\* the steps of the caller of the pipeline, and those of the pipeline
PipelineSteps ==
    \/ \E platform \in Platforms : iter_items_to_cancel(platform)
    \/ Advance
    \/ Close
    \/ SoldMessagesNext
    \/ GetDonelabel
    \/ CreateLabel
    \/ GetMessage
    \/ TryMessageToItem

\* the steps of iter_related_items
RelatedSteps ==
    \/ RelatedStart
    \/ RelatedRead
    \/ RelatedLocate
    \/ RelatedNext

\* the steps of the caller of the data system, and those of update and delete
StoreSteps ==
    \/ \E item \in StoreItems(platform_to_column) : iter_related_items(item)
    \/ AdvanceRelated
    \/ Discard
    \/ \E item \in StoreItems(platform_to_column) : update(item)
    \/ \E item \in StoreItems(platform_to_column) : delete(item)
    \/ MutateRead
    \/ MutateWrite

Next == PipelineSteps \/ RelatedSteps

Spec == Init /\ [][Next]_vars

\* the data system alone: a sheet, and a caller of its three operations
InitStore ==
    /\ mail = <<>>
    /\ labels = <<>>
    /\ platform_to_column \in Configs
    /\ sheet \in StoreSheets(platform_to_column)
    /\ hist = <<>>
    /\ core = CoreAbsent
    /\ InitCommon

NextStore == StoreSteps \/ RelatedSteps

SpecStore == InitStore /\ [][NextStore]_vars

\* the same call made again: iter_related_items(item) with the item of the
\* call that ended, on the sheet as it is; hist keeps how the first call ended
Repeat ==
    /\ pc = "consumer"
    /\ core.state = "absent"
    /\ rel.caller = "consumer"
    /\ rel.state \in {"finished", "raised"}
    /\ hist = <<>>
    /\ hist' = <<[state |-> rel.state, items |-> [m \in 1..Len(out) |-> out[m].item],
                  err |-> err]>>
    /\ rel' = [RelNone EXCEPT !.state = "created", !.caller = "consumer",
                              !.item = rel.item]
    /\ out' = <<>>
    /\ err' = NoErr
    /\ calls' = NoCalls
    /\ UNCHANGED <<mail, labels, sheet, platform_to_column, pc, core, ids, message,
                   mut, runs>>

NextRepeat ==
    \/ \E item \in StoreItems(platform_to_column) : iter_related_items(item)
    \/ AdvanceRelated
    \/ Repeat
    \/ RelatedSteps

\* the data system asked twice for the related items of one item
SpecRepeat == InitStore /\ [][NextRepeat]_vars

\* another user of the spreadsheet edits it while a resolution is between two
\* of its column reads; hist keeps the sheet as it was.  One edit is explored
\* per resolution.
BetweenReads ==
    /\ pc = "related_read"
    /\ hist = <<>>
    /\ hist' = <<[before |-> sheet]>>
    /\ UNCHANGED <<mail, labels, platform_to_column, pc, core, ids, message, rel,
                   mut, out, err, calls, runs>>

\* a row is inserted above the first one
ExternalInsert ==
    /\ BetweenReads
    /\ \A column \in Columns : Len(sheet[column]) < MaxRows
    /\ sheet' = [column \in Columns |->
                    CASE column = "A" -> <<c00008>> \o sheet[column]
                      [] column = "B" -> <<A008>> \o sheet[column]
                      [] column = "C" -> <<B007>> \o sheet[column]
                      [] OTHER -> sheet[column]]

\* the first row is removed
ExternalRemove ==
    /\ BetweenReads
    /\ \E column \in Columns : Len(sheet[column]) >= 1
    /\ sheet' = [column \in Columns |->
                    IF sheet[column] = <<>> THEN <<>> ELSE Tail(sheet[column])]

\* a cell is cleared
ExternalClear ==
    /\ BetweenReads
    /\ \E column \in Columns :
          \E row \in 1..Len(sheet[column]) :
              /\ sheet[column][row] # EmptyStr
              /\ sheet' = SetCell(sheet, column, row, EmptyStr)

\* the items whose related items are asked for
WriterItems ==
    {create_item("mercari", item_id, EmptyStr) : item_id \in ItemIds(TwoPlatforms, "mercari")}
    \cup {create_item("yahoo_auction", item_id, EmptyStr) :
                item_id \in ItemIds(TwoPlatforms, "yahoo_auction")}

InitWriter ==
    /\ platform_to_column = TwoPlatforms
    /\ InitStore

NextWriter ==
    \/ \E item \in WriterItems : iter_related_items(item)
    \/ AdvanceRelated
    \/ ExternalInsert
    \/ ExternalRemove
    \/ ExternalClear
    \/ RelatedSteps

\* one resolution on a spreadsheet that another user edits
SpecWriter == InitWriter /\ [][NextWriter]_vars

\* the call of iter_items_to_cancel by a caller that keeps, in out, the items
\* its earlier runs gave it, each with the message it stems from
iter_items_to_cancel_logged(platform) ==
    /\ pc = "consumer"
    /\ core.state \in {"none", "finished", "raised", "closed"}
    /\ runs < MaxRuns
    /\ runs' = runs + 1
    /\ core' = [state |-> "created", platform |-> platform]
    /\ ids' = IdsNone
    /\ rel' = RelNone
    /\ message' = NoMessage
    /\ err' = NoErr
    /\ calls' = NoCalls
    /\ UNCHANGED <<mail, labels, sheet, platform_to_column, pc, mut, out, hist>>

NextRuns ==
    \/ \E platform \in Platforms : iter_items_to_cancel_logged(platform)
    \/ Advance
    \/ Close
    \/ SoldMessagesNext
    \/ GetDonelabel
    \/ CreateLabel
    \/ GetMessage
    \/ TryMessageToItem
    \/ RelatedSteps

\* successive runs of the pipeline over one mailbox and one sheet
SpecRuns == Init /\ [][NextRuns]_vars

\* the bound of the message bodies: the number of pieces of text in a body
MaxParts == 4

\* pieces of text of a message body: the two markers, the end of a marker,
\* characters of [a-zA-Z0-9] and one outside of it
Pieces ==
    {item_id_pattern("mercari"), item_id_pattern("yahoo_auction"),
     <<"I", "D", " ", ":", " ">>, <<"A">>, <<"0">>, <<"-">>}

RECURSIVE Bodies(_)
Bodies(n) ==
    IF n = 0
    THEN {EmptyStr}
    ELSE LET shorter == Bodies(n - 1)
         IN  shorter \cup {body \o piece : body \in shorter, piece \in Pieces}

\* a message of one of the two platform variants, before to_item is called
InitParse ==
    /\ mail = <<>>
    /\ labels = <<>>
    /\ platform_to_column = TwoPlatforms
    /\ sheet = Sheet(<<>>, <<>>, <<>>, <<>>)
    /\ hist = <<>>
    /\ core = CoreAbsent
    /\ pc = "consumer"
    /\ ids = IdsNone
    /\ message \in {create_message(platform, EmptyStr, body) :
                        platform \in {"mercari", "yahoo_auction"},
                        body \in Bodies(MaxParts)}
    /\ rel = RelNone
    /\ mut = MutNone
    /\ out = <<>>
    /\ err = NoErr
    /\ calls = NoCalls
    /\ runs = 0

\* message.to_item() is called; hist keeps what it returned or raised
ToItem ==
    /\ pc = "consumer"
    /\ hist = <<>>
    /\ hist' = <<to_item(message)>>
    /\ UNCHANGED <<mail, labels, sheet, platform_to_column, pc, core, ids, message,
                   rel, mut, out, err, calls, runs>>

NextParse == ToItem

SpecParse == InitParse /\ [][NextParse]_vars

(***************************************************************************)
(* The browser.  A platform or an item drives a selenium WebDriver; what   *)
(* the browser answers is not decided by the library, so each driver call  *)
(* takes one of its possible outcomes.  mut is the operation in progress,  *)
(* hist the calls made on the driver with their outcomes, out the value    *)
(* returned, err the exception that left the operation.                    *)
(***************************************************************************)
\* the exceptions a driver call can raise besides the outcome it is made for
DriverFailures == {"WebDriverException", "TimeoutException"}

\* driver.get(url): the page is loaded at url, the browser lands on another
\* url (a redirect), or the call fails
GetOutcomes == {"loaded", "elsewhere"} \cup DriverFailures

DriverCall(call, arg, outcome) == [call |-> call, arg |-> arg, outcome |-> outcome]

\* the operation returns value
BrowserReturns(value) ==
    /\ mut' = [mut EXCEPT !.state = "returned"]
    /\ out' = <<value>>
    /\ err' = err
    /\ pc' = "consumer"

\* an exception leaves the operation
BrowserRaises(kind, cause) ==
    /\ mut' = [mut EXCEPT !.state = "raised"]
    /\ out' = out
    /\ err' = [kind |-> kind, cause |-> cause]
    /\ pc' = "consumer"

BrowserGoes(to) ==
    /\ pc' = to
    /\ UNCHANGED <<mut, out, err>>

BrowserIdle ==
    /\ pc = "consumer"
    /\ mut.state \in {"none", "returned", "raised"}
    /\ runs < MaxRuns

\* the parameters of the method are bound: the methods of Mercari are
\* declared (self, driver), those of Yahoo!Auction and of the abstract classes
\* (self, driver, timeout = 60); timeout tells whether the caller passes one
accepts_timeout(platform) == platform # "mercari"

unexpected_keyword_error == [kind |-> "TypeError", cause |-> "unexpected_keyword_timeout"]

\* the call of a browser operation: TypeError when a timeout is passed to a
\* method that has none, else the body starts, for Yahoo!Auction with
\* driver.implicitly_wait(timeout)
BrowserCall(op, item, timeout, first) ==
    /\ BrowserIdle
    /\ runs' = runs + 1
    /\ hist' = <<>>
    /\ out' = <<>>
    /\ IF timeout /\ ~accepts_timeout(item.platform)
       THEN /\ mut' = [MutNone EXCEPT !.state = "raised", !.op = op, !.item = item]
            /\ err' = unexpected_keyword_error
            /\ pc' = "consumer"
       ELSE /\ mut' = [MutNone EXCEPT !.state = "running", !.op = op, !.item = item]
            /\ err' = NoErr
            /\ pc' = first
    /\ UNCHANGED <<mail, labels, sheet, platform_to_column, core, ids, message, rel, calls>>

\* Platform.is_accessible_to_userpage(driver) or (driver, timeout = ...),
\* mercari.py line 41, yahoo_auction.py lines 45-47
is_accessible_to_userpage(platform, timeout) ==
    BrowserCall("is_accessible_to_userpage", create_item(platform, EmptyStr, EmptyStr),
                timeout,
                IF platform = "mercari" THEN "access_get" ELSE "access_implicitly_wait")

\* yahoo_auction.py line 48: driver.implicitly_wait(timeout), outside of the
\* try statement
AccessImplicitlyWait ==
    /\ pc = "access_implicitly_wait"
    /\ \E outcome \in {"done"} \cup DriverFailures :
          /\ hist' = Append(hist, DriverCall("implicitly_wait", "timeout", outcome))
          /\ IF outcome \in DriverFailures
             THEN BrowserRaises(outcome, "")
             ELSE BrowserGoes("access_get")
    /\ UNCHANGED <<mail, labels, sheet, platform_to_column, core, ids, message, rel,
                   calls, runs>>

\* driver.get(self._mypage_url) / driver.get(self._my_auction_url): outside
\* of the try statement
AccessGet ==
    /\ pc = "access_get"
    /\ \E outcome \in GetOutcomes :
          /\ hist' = Append(hist, DriverCall("get", "userpage", outcome))
          /\ IF outcome \in DriverFailures
             THEN BrowserRaises(outcome, "")
             ELSE BrowserGoes("access_wait")
    /\ UNCHANGED <<mail, labels, sheet, platform_to_column, core, ids, message, rel,
                   calls, runs>>

\* the wait without the except clause: the TimeoutException leaves
AccessWaitPropagates ==
    /\ pc = "access_wait"
    /\ \E outcome \in {"matched"} \cup DriverFailures :
          /\ hist' = Append(hist, DriverCall("wait", "login", outcome))
          /\ IF outcome \in DriverFailures
             THEN BrowserRaises(outcome, "")
             ELSE IF mut.item.platform = "mercari"
                  THEN BrowserReturns(FALSE)
                  ELSE BrowserGoes("relogin_implicitly_wait")
    /\ UNCHANGED <<mail, labels, sheet, platform_to_column, core, ids, message, rel,
                   calls, runs>>

\* WebDriverWait(driver, timeout).until(url_matches(login url)), and what
\* follows it: mercari.py lines 43-50, yahoo_auction.py lines 50-59.  The
\* except clause takes the TimeoutException only: another exception of the
\* driver, raised while the wait polls driver.current_url, leaves
AccessWait ==
    /\ pc = "access_wait"
    /\ \E outcome \in {"matched"} \cup DriverFailures :
          /\ hist' = Append(hist, DriverCall("wait", "login", outcome))
          /\ CASE outcome = "TimeoutException" -> BrowserReturns(TRUE)
               [] outcome = "WebDriverException" -> BrowserRaises(outcome, "")
               [] OTHER -> IF mut.item.platform = "mercari"
                           THEN BrowserReturns(FALSE)
                           ELSE BrowserGoes("relogin_implicitly_wait")
    /\ UNCHANGED <<mail, labels, sheet, platform_to_column, core, ids, message, rel,
                   calls, runs>>

\* _try_relogin, line 62: driver.implicitly_wait(timeout), inside the try
\* statement of is_accessible_to_userpage, whose except clause takes a
\* TimeoutException
ReloginImplicitlyWait ==
    /\ pc = "relogin_implicitly_wait"
    /\ \E outcome \in {"done"} \cup DriverFailures :
          /\ hist' = Append(hist, DriverCall("implicitly_wait", "timeout", outcome))
          /\ CASE outcome = "TimeoutException" -> BrowserReturns(TRUE)
               [] outcome = "WebDriverException" -> BrowserRaises(outcome, "")
               [] OTHER -> BrowserGoes("relogin_get")
    /\ UNCHANGED <<mail, labels, sheet, platform_to_column, core, ids, message, rel,
                   calls, runs>>

\* _try_relogin, line 63: driver.get(self.home_url), inside the same try
\* statement
ReloginGet ==
    /\ pc = "relogin_get"
    /\ \E outcome \in GetOutcomes :
          /\ hist' = Append(hist, DriverCall("get", "home", outcome))
          /\ CASE outcome = "TimeoutException" -> BrowserReturns(TRUE)
               [] outcome = "WebDriverException" -> BrowserRaises(outcome, "")
               [] OTHER -> BrowserGoes("relogin_find")
    /\ UNCHANGED <<mail, labels, sheet, platform_to_column, core, ids, message, rel,
                   calls, runs>>

\* _try_relogin, lines 64-67: the login button is looked for; the except
\* clause of _try_relogin takes the NoSuchElementException only
ReloginFind ==
    /\ pc = "relogin_find"
    /\ \E outcome \in {"found", "NoSuchElementException"} \cup DriverFailures :
          /\ hist' = Append(hist, DriverCall("find_element", "login_button", outcome))
          /\ CASE outcome = "found" -> BrowserGoes("relogin_click")
               [] outcome = "NoSuchElementException" -> BrowserReturns(FALSE)
               [] outcome = "TimeoutException" -> BrowserReturns(TRUE)
               [] OTHER -> BrowserRaises(outcome, "")
    /\ UNCHANGED <<mail, labels, sheet, platform_to_column, core, ids, message, rel,
                   calls, runs>>

\* _try_relogin, line 69: the click, made by a script
ReloginClick ==
    /\ pc = "relogin_click"
    /\ \E outcome \in {"done"} \cup DriverFailures :
          /\ hist' = Append(hist, DriverCall("execute_script", "click", outcome))
          /\ CASE outcome = "TimeoutException" -> BrowserReturns(TRUE)
               [] outcome = "WebDriverException" -> BrowserRaises(outcome, "")
               [] OTHER -> BrowserGoes("relogin_wait")
    /\ UNCHANGED <<mail, labels, sheet, platform_to_column, core, ids, message, rel,
                   calls, runs>>

\* the wait after the click with its two results exchanged
ReloginWaitInverted ==
    /\ pc = "relogin_wait"
    /\ \E outcome \in {"matched"} \cup DriverFailures :
          /\ hist' = Append(hist, DriverCall("wait", "login", outcome))
          /\ CASE outcome = "matched" -> BrowserReturns(TRUE)
               [] outcome = "TimeoutException" -> BrowserReturns(FALSE)
               [] OTHER -> BrowserRaises(outcome, "")
    /\ UNCHANGED <<mail, labels, sheet, platform_to_column, core, ids, message, rel,
                   calls, runs>>

\* _try_relogin, lines 70-77: the wait after the click; the except clause
\* takes the TimeoutException only
ReloginWait ==
    /\ pc = "relogin_wait"
    /\ \E outcome \in {"matched"} \cup DriverFailures :
          /\ hist' = Append(hist, DriverCall("wait", "login", outcome))
          /\ CASE outcome = "matched" -> BrowserReturns(FALSE)
               [] outcome = "TimeoutException" -> BrowserReturns(TRUE)
               [] OTHER -> BrowserRaises(outcome, "")
    /\ UNCHANGED <<mail, labels, sheet, platform_to_column, core, ids, message, rel,
                   calls, runs>>

\* Item.cancel(driver) or (driver, timeout = ...), mercari.py lines 75-76,
\* yahoo_auction.py line 102
cancel(item, timeout) ==
    BrowserCall("cancel", item, timeout,
                IF item.platform = "mercari" THEN "cancel_get" ELSE "cancel_implicitly_wait")

\* yahoo_auction.py line 103: driver.implicitly_wait(timeout), outside of
\* every try statement
CancelImplicitlyWait ==
    /\ pc = "cancel_implicitly_wait"
    /\ \E outcome \in {"done"} \cup DriverFailures :
          /\ hist' = Append(hist, DriverCall("implicitly_wait", "timeout", outcome))
          /\ IF outcome \in DriverFailures
             THEN BrowserRaises(outcome, "")
             ELSE BrowserGoes("cancel_get")
    /\ UNCHANGED <<mail, labels, sheet, platform_to_column, core, ids, message, rel,
                   calls, runs>>

\* mercari.py lines 77-86, yahoo_auction.py lines 104-113: the page is opened
\* and driver.current_url compared with its url
CancelGet ==
    /\ pc = "cancel_get"
    /\ \E outcome \in GetOutcomes :
          /\ hist' = Append(hist, DriverCall("get", "cancel_page", outcome))
          /\ CASE outcome = "loaded" -> BrowserGoes("cancel_find")
               [] outcome = "elsewhere" ->
                      BrowserRaises("ItemNotCanceledError", "AssertionError")
               [] OTHER -> BrowserRaises("ItemNotCanceledError", outcome)
    /\ UNCHANGED <<mail, labels, sheet, platform_to_column, core, ids, message, rel,
                   calls, runs>>

\* mercari.py lines 87-96, yahoo_auction.py lines 114-120: the button is
\* looked for; the except clause takes every Exception
CancelFind ==
    /\ pc = "cancel_find"
    /\ \E outcome \in {"found", "NoSuchElementException"} \cup DriverFailures :
          /\ hist' = Append(hist, DriverCall("find_element", "cancel_button", outcome))
          /\ IF outcome = "found"
             THEN BrowserGoes("cancel_click")
             ELSE BrowserRaises("ItemNotCanceledError", outcome)
    /\ UNCHANGED <<mail, labels, sheet, platform_to_column, core, ids, message, rel,
                   calls, runs>>

\* mercari.py lines 97-103, yahoo_auction.py lines 121-127: the button is
\* clicked; the except clause takes every Exception
CancelClick ==
    /\ pc = "cancel_click"
    /\ \E outcome \in {"done"} \cup DriverFailures :
          /\ hist' = Append(hist, DriverCall("click", "cancel_button", outcome))
          /\ IF outcome = "done"
             THEN BrowserGoes("cancel_wait")
             ELSE BrowserRaises("ItemNotCanceledError", outcome)
    /\ UNCHANGED <<mail, labels, sheet, platform_to_column, core, ids, message, rel,
                   calls, runs>>

\* mercari.py lines 104-106, yahoo_auction.py lines 128-135: the wait after
\* the click, outside of every try statement
CancelWait ==
    /\ pc = "cancel_wait"
    /\ \E outcome \in {"reached"} \cup DriverFailures :
          /\ hist' = Append(hist, DriverCall("wait", "after_click", outcome))
          /\ IF outcome = "reached"
             THEN BrowserReturns("None")
             ELSE BrowserRaises(outcome, "")
    /\ UNCHANGED <<mail, labels, sheet, platform_to_column, core, ids, message, rel,
                   calls, runs>>

\* the items that are cancelled
BrowserItems ==
    {create_item("mercari", A007, c00007), create_item("yahoo_auction", B007, c00007)}

InitBrowser ==
    /\ mail = <<>>
    /\ labels = <<>>
    /\ platform_to_column = TwoPlatforms
    /\ sheet = Sheet(<<>>, <<>>, <<>>, <<>>)
    /\ hist = <<>>
    /\ core = CoreAbsent
    /\ InitCommon

NextBrowser ==
    \/ \E platform \in {"mercari", "yahoo_auction"}, timeout \in BOOLEAN :
            is_accessible_to_userpage(platform, timeout)
    \/ AccessImplicitlyWait
    \/ AccessGet
    \/ AccessWait
    \/ ReloginImplicitlyWait
    \/ ReloginGet
    \/ ReloginFind
    \/ ReloginClick
    \/ ReloginWait
    \/ \E item \in BrowserItems, timeout \in BOOLEAN : cancel(item, timeout)
    \/ CancelImplicitlyWait
    \/ CancelGet
    \/ CancelFind
    \/ CancelClick
    \/ CancelWait

\* a caller of the browser operations of the two platforms
SpecBrowser == InitBrowser /\ [][NextBrowser]_vars

\* the pipeline on a sheet that lacks the row of a sold item
InitGain ==
    /\ Init
    /\ platform_to_column = TwoPlatforms
    /\ sheet = Sheet(<<c00007>>, <<A007>>, <<B007>>, <<>>)

\* between two runs the user of the spreadsheet registers the item A008
StoreGainsRow ==
    /\ pc = "consumer"
    /\ core.state \in {"finished", "raised", "closed"}
    /\ sheet = Sheet(<<c00007>>, <<A007>>, <<B007>>, <<>>)
    /\ sheet' = Sheet(<<c00007, c00008>>, <<A007, A008>>, <<B007, B008>>, <<>>)
    /\ UNCHANGED <<mail, labels, platform_to_column, pc, core, ids, message, rel,
                   mut, out, err, calls, hist, runs>>

NextGain == PipelineSteps \/ RelatedSteps \/ StoreGainsRow

\* runs of the pipeline with a row added to the sheet between them
SpecGain == InitGain /\ [][NextGain]_vars

\* another user of the spreadsheet edits it between the read of update or
\* delete and their write; hist keeps the sheet as it was before
BetweenReadAndWrite ==
    /\ pc = "mutate_write"
    /\ hist = <<>>
    /\ hist' = <<[before |-> sheet]>>
    /\ UNCHANGED <<mail, labels, platform_to_column, pc, core, ids, message, rel,
                   mut, out, err, calls, runs>>

\* a row is inserted above the first one
InsertBeforeWrite ==
    /\ BetweenReadAndWrite
    /\ \A column \in Columns : Len(sheet[column]) < MaxRows
    /\ sheet' = [column \in Columns |->
                    CASE column = "A" -> <<c00008>> \o sheet[column]
                      [] column = "B" -> <<A008>> \o sheet[column]
                      [] column = "C" -> <<B007>> \o sheet[column]
                      [] OTHER -> sheet[column]]

\* the first row is removed
RemoveBeforeWrite ==
    /\ BetweenReadAndWrite
    /\ sheet' = [column \in Columns |->
                    IF sheet[column] = <<>> THEN <<>> ELSE Tail(sheet[column])]

NextShift ==
    \/ \E item \in StoreItems(platform_to_column) : update(item)
    \/ \E item \in StoreItems(platform_to_column) : delete(item)
    \/ MutateRead
    \/ MutateWrite
    \/ InsertBeforeWrite
    \/ RemoveBeforeWrite

\* update and delete on a spreadsheet whose rows another user shifts
SpecShift == InitWriter /\ [][NextShift]_vars

\* both uses of the library: the pipeline, or the data system alone
InitBoth == Init \/ InitStore

NextBoth == PipelineSteps \/ StoreSteps \/ RelatedSteps

SpecBoth == InitBoth /\ [][NextBoth]_vars

(***************************************************************************)
(* What the properties speak about.                                        *)
(***************************************************************************)
\* the items the caller received, without the message they stem from
OutItems == [m \in 1..Len(out) |-> out[m].item]

\* message n of the mailbox, as the run for core.platform gets it, parses
Parses(n) ==
    /\ mail[n].decodable
    /\ to_item(create_message(core.platform, EmptyStr, mail[n].body)).ok

\* the item message n of the mailbox stands for
SoldItem(n) == to_item(create_message(core.platform, EmptyStr, mail[n].body)).item

\* the positions in platform_to_column of the platforms other than platform
OtherPositions(p2c, platform) ==
    Ascending(Len(p2c), {n \in 1..Len(p2c) : p2c[n].platform # platform})

\* the cell of the sheet at a 1-based row; Missing beyond the end of the column
Missing == <<"(", "n", "o", " ", "c", "e", "l", "l", ")">>
Cell(sh, column, row) ==
    IF row <= Len(sh[column]) THEN sh[column][row] ELSE Missing

\* item is on a platform with a column, and that column holds item.item_id
Registered(sh, p2c, item) ==
    /\ supported(p2c, item.platform)
    /\ \E row \in 1..Len(sh[column_of(p2c, item.platform)]) :
          sh[column_of(p2c, item.platform)][row] = item.item_id

\* the first row (1-based) of the column of item.platform that holds item.item_id
RowOf(sh, p2c, item) ==
    Min({row \in 1..Len(sh[column_of(p2c, item.platform)]) :
            sh[column_of(p2c, item.platform)][row] = item.item_id})

\* row r of the sheet read for the other platforms, in platform_to_column order
SiblingsAt(sh, p2c, item, r) ==
    LET others == OtherPositions(p2c, item.platform)
    IN  [m \in 1..Len(others) |->
            create_item(p2c[others[m]].platform,
                        Cell(sh, p2c[others[m]].column, r),
                        Cell(sh, crostore_id_column, r))]

\* the siblings of item, each with the message they stem from
Tagged(items, n) == [m \in 1..Len(items) |-> [item |-> items[m], msg |-> n]]

\* what the messages listed[1..j] contribute to the output, in order
RECURSIVE ExpectedOut(_, _)
ExpectedOut(listed, j) ==
    IF j = 0 THEN <<>>
    ELSE ExpectedOut(listed, j - 1) \o
         (IF Parses(listed[j]) /\ Registered(sheet, platform_to_column, SoldItem(listed[j]))
          THEN Tagged(SiblingsAt(sheet, platform_to_column, SoldItem(listed[j]),
                                 RowOf(sheet, platform_to_column, SoldItem(listed[j]))),
                      listed[j])
          ELSE <<>>)

(***************************************************************************)
(* C1: a message whose to_item() fails makes iter_items_to_cancel neither  *)
(* raise nor yield anything for that message, and when the run ends        *)
(* normally every parseable message listed after it whose item has a row   *)
(* and another registered platform has its siblings in the output.         *)
(***************************************************************************)
C1_ParseFailureIsSkipped ==
    /\ err.cause # "to_item"
    /\ err.kind # "ItemIdNotFoundError"
    /\ \A m \in 1..Len(out) : Parses(out[m].msg)
    /\ core.state = "finished" =>
          \A i, j \in 1..Len(ids.messages) :
              (/\ i < j
               /\ mail[ids.messages[i]].decodable
               /\ ~Parses(ids.messages[i])
               /\ Parses(ids.messages[j])
               /\ Registered(sheet, platform_to_column, SoldItem(ids.messages[j]))
               /\ Len(platform_to_column) >= 2)
              => \E m \in 1..Len(out) : out[m].msg = ids.messages[j]

\* a run that ended normally, with a message that failed to parse before one
\* whose sibling was yielded
C1_Witness ==
    /\ core.state = "finished"
    /\ \E i, j \in 1..Len(ids.messages) :
          /\ i < j
          /\ mail[ids.messages[i]].decodable
          /\ ~Parses(ids.messages[i])
          /\ \E m \in 1..Len(out) : out[m].msg = ids.messages[j]

(***************************************************************************)
(* C2: when the run ends normally its output is exactly the concatenation, *)
(* in message order, of the siblings of each listed message that parses,   *)
(* in the order of platform_to_column; three mercari messages of which the *)
(* second does not parse, with one yahoo_auction sibling for the first and *)
(* the third, give exactly these two items, in this order.                 *)
(***************************************************************************)
C2_Scenario ==
    /\ core.state = "finished"
    /\ core.platform = "mercari"
    /\ runs = 1
    /\ platform_to_column = TwoPlatforms
    /\ sheet = Sheet(<<c00007, c00008>>, <<A007, A008>>, <<B007, B008>>, <<D007>>)
    /\ Len(mail) = 3
    /\ \A n \in 1..3 : mail[n].platform = "mercari" /\ mail[n].decodable
    /\ mail[1].body = item_id_pattern("mercari") \o A007
    /\ mail[2].body = item_id_pattern("mercari")
    /\ mail[3].body = <<"!">> \o item_id_pattern("mercari") \o A008 \o <<".">>

C2_OutputIsConcatenation ==
    /\ core.state = "finished" => out = ExpectedOut(ids.messages, Len(ids.messages))
    /\ C2_Scenario =>
          out = <<[item |-> create_item("yahoo_auction", B007, c00007), msg |-> 1],
                  [item |-> create_item("yahoo_auction", B008, c00008), msg |-> 3]>>

C2_Witness == C2_Scenario /\ Len(out) = 2

(***************************************************************************)
(* C3: every message iter_sold_messages yielded carries the done label     *)
(* once the iteration is over, wherever the consumer stopped; it is        *)
(* labelled at most once and no later call yields it again.                *)
(***************************************************************************)
C3_YieldedIsMarkedOnce ==
    \A n \in 1..Len(mail) :
        /\ hist[n].yielded <= 1
        /\ hist[n].modified <= 1
        /\ (pc = "consumer" /\ core.state \in {"closed", "finished"}
                /\ hist[n].yielded = 1)
              => (hist[n].modified = 1 /\ mail[n].labelIds \cap DoneLabelIds(labels) # {})

(***************************************************************************)
(* C4: the call of iter_items_to_cancel performs no request; the messages  *)
(* fetched are the listed ones up to the message the consumer's pulls      *)
(* reached, in order, and columns are read only for fetched messages, so   *)
(* nothing after the point where the consumer stops is fetched, parsed or  *)
(* resolved.                                                               *)
(***************************************************************************)
C4_NothingBeforeThePull ==
    /\ core.state = "created" => calls = NoCalls
    /\ Len(calls.get_message) <= Len(ids.messages)
    /\ calls.get_message = SubSeq(ids.messages, 1, Len(calls.get_message))
    /\ Len(calls.get_message) <= ids.i
    /\ Len(calls.modify_message) <= Len(calls.get_message)
    /\ Len(calls.get_column_values)
          <= Len(calls.get_message) * (1 + Len(platform_to_column))
    /\ (core.state = "suspended" /\ pc = "consumer") =>
          /\ Len(calls.get_message) = ids.i
          /\ out[Len(out)].msg = ids.messages[ids.i]

\* the consumer stopped after an item of a message that is not the last one
\* listed: the later messages were not fetched
C4_Witness ==
    /\ core.state = "closed"
    /\ Len(out) >= 1
    /\ ids.i < Len(ids.messages)
    /\ Len(calls.get_message) = ids.i

(***************************************************************************)
(* C5: every item iter_related_items yields for an item found in its       *)
(* platform's column is built by the other platform's create_item from     *)
(* that platform's cell and the crostore id cell of the first row holding  *)
(* item.item_id; for the row (c00007, A007, B007) the item (mercari, A007) *)
(* gives exactly (yahoo_auction, B007, c00007).                            *)
(***************************************************************************)
C5_Example ==
    /\ platform_to_column = TwoPlatforms
    /\ sheet = Sheet(<<c00007>>, <<A007>>, <<B007>>, <<>>)
    /\ rel.item.platform = "mercari"
    /\ rel.item.item_id = A007
    /\ rel.state = "finished"

C5_SiblingsComeFromTheRow ==
    /\ Registered(sheet, platform_to_column, rel.item) =>
          \A m \in 1..Len(out) :
              LET r == RowOf(sheet, platform_to_column, rel.item)
                  n == OtherPositions(platform_to_column, rel.item.platform)[m]
                  column == platform_to_column[n].column
              IN  /\ r <= Len(sheet[column])
                  /\ r <= Len(sheet[crostore_id_column])
                  /\ out[m].item = create_item(platform_to_column[n].platform,
                                               sheet[column][r],
                                               sheet[crostore_id_column][r])
    /\ C5_Example => OutItems = <<create_item("yahoo_auction", B007, c00007)>>

C5_Witness == C5_Example /\ Len(out) = 1

(***************************************************************************)
(* C6: no item iter_related_items(item) yields is on item.platform, and no *)
(* item iter_items_to_cancel(platform) yields is on platform.              *)
(***************************************************************************)
C6_NeverOnTheSourcePlatform ==
    \A m \in 1..Len(out) :
        /\ out[m].item.platform # rel.item.platform
        /\ core.state # "absent" => out[m].item.platform # core.platform

\* a run over three platforms that yielded the items of the two other ones
C6_Witness ==
    /\ core.state = "finished"
    /\ platform_to_column = ThreePlatforms
    /\ Len(out) = 2

(***************************************************************************)
(* C7: when item.item_id is found in its platform's column,                *)
(* iter_related_items does not raise and yields one item for each other    *)
(* platform of platform_to_column, in its order, whatever the lengths of   *)
(* the columns read.                                                       *)
(***************************************************************************)
C7_OneSiblingPerOtherPlatform ==
    (/\ rel.caller = "consumer"
     /\ rel.state \in {"finished", "raised"}
     /\ Registered(sheet, platform_to_column, rel.item))
    => /\ rel.state = "finished"
       /\ err = NoErr
       /\ Len(out) = Len(platform_to_column) - 1
       /\ \A m \in 1..Len(out) :
             out[m].item.platform =
                platform_to_column[OtherPositions(platform_to_column,
                                                  rel.item.platform)[m]].platform

(***************************************************************************)
(* C8: for an item on a platform of platform_to_column whose item_id is    *)
(* not in that platform's column, iter_related_items yields nothing and    *)
(* raises nothing; in iter_items_to_cancel no item stems from such a       *)
(* message, the run does not fail on it, and when the run ends normally    *)
(* the siblings of the registered messages listed after it are yielded.    *)
(***************************************************************************)
C8_NotRegisteredYieldsNothing ==
    /\ (/\ rel.caller = "consumer"
         /\ supported(platform_to_column, rel.item.platform)
         /\ ~Registered(sheet, platform_to_column, rel.item))
        => /\ out = <<>>
           /\ err = NoErr
           /\ rel.state \in {"created", "running", "finished"}
           /\ (pc = "consumer" /\ rel.state # "created") => rel.state = "finished"
    /\ (/\ rel.caller = "core"
         /\ supported(platform_to_column, rel.item.platform)
         /\ ~Registered(sheet, platform_to_column, rel.item))
        => /\ core.state # "raised"
           /\ err = NoErr
           /\ rel.state \in {"created", "running", "finished"}
    /\ core.state # "absent" =>
          \A m \in 1..Len(out) :
              Registered(sheet, platform_to_column, SoldItem(out[m].msg))
    /\ core.state = "finished" =>
          \A i, j \in 1..Len(ids.messages) :
              (/\ i < j
               /\ Parses(ids.messages[i])
               /\ ~Registered(sheet, platform_to_column, SoldItem(ids.messages[i]))
               /\ Parses(ids.messages[j])
               /\ Registered(sheet, platform_to_column, SoldItem(ids.messages[j]))
               /\ Len(platform_to_column) >= 2)
              => \E m \in 1..Len(out) : out[m].msg = ids.messages[j]

\* a run that ended normally, with a message whose item has no row before one
\* whose sibling was yielded
C8_Witness ==
    /\ core.state = "finished"
    /\ \E i, j \in 1..Len(ids.messages) :
          /\ i < j
          /\ Parses(ids.messages[i])
          /\ ~Registered(sheet, platform_to_column, SoldItem(ids.messages[i]))
          /\ \E m \in 1..Len(out) : out[m].msg = ids.messages[j]

(***************************************************************************)
(* C9: for an item whose platform is not in platform_to_column,            *)
(* iter_related_items raises the exception for an unsupported platform at  *)
(* its first step: nothing was yielded and no column was read.             *)
(***************************************************************************)
C9_UnsupportedPlatformFailsFirst ==
    (rel.state # "none" /\ ~supported(platform_to_column, rel.item.platform))
    => /\ out = <<>>
       /\ calls.get_column_values = <<>>
       /\ rel.state \in {"created", "raised"}
       /\ rel.state = "raised" => err = unsupported_platform_error
       /\ rel.state = "created" => (err = NoErr /\ pc \in {"consumer", "related_start"})

\* the generator for an item of a platform without a column has raised
C9_Witness ==
    /\ rel.state = "raised"
    /\ ~supported(platform_to_column, rel.item.platform)
    /\ err = unsupported_platform_error

(***************************************************************************)
(* C10: the three failures of the data system are raised as error kinds a  *)
(* caller can tell apart: UnsupportedPlatformError for a platform without  *)
(* a column, EmptyIdentifierError for an empty crostore_id,                *)
(* IdentifierNotFoundError for a crostore_id that is in no row.            *)
(***************************************************************************)
C10_DistinctErrorKinds ==
    /\ err.cause = "unsupported_platform" => err.kind = "UnsupportedPlatformError"
    /\ err.cause = "empty_crostore_id" => err.kind = "EmptyIdentifierError"
    /\ err.cause = "crostore_id_not_found" => err.kind = "IdentifierNotFoundError"

(***************************************************************************)
(* C11: update(item) and delete(item) fail when item.crostore_id is empty, *)
(* for every platform and before any read, and when item.crostore_id is    *)
(* not in the crostore id column; no update or clear request is made and   *)
(* no step of such a call changes the sheet.                               *)
(***************************************************************************)
C11_Fails ==
    /\ (mut.state # "none" /\ mut.item.crostore_id = EmptyStr)
          => /\ mut.state = "raised"
             /\ pc = "consumer"
             /\ err = empty_crostore_id_error
             /\ calls = NoCalls
    /\ (/\ mut.state # "none"
         /\ mut.item.crostore_id # EmptyStr
         /\ ~index(sheet[crostore_id_column], mut.item.crostore_id).found)
          => /\ mut.state \in {"running", "raised"}
             /\ mut.state = "running" => pc = "mutate_read"
             /\ mut.state = "raised" => (pc = "consumer" /\ err = crostore_id_not_found_error)
             /\ calls.update = <<>>
             /\ calls.clear = <<>>

C11_Step ==
    (/\ mut'.state # "none"
     /\ \/ mut'.item.crostore_id = EmptyStr
        \/ ~index(sheet'[crostore_id_column], mut'.item.crostore_id).found)
    => sheet' = sheet

C11_FailedMutationLeavesTheSheet == []C11_Fails /\ [][C11_Step]_vars

\* delete failed on an item without a crostore_id, on a sheet that has rows
C11_Witness ==
    /\ mut.state = "raised"
    /\ mut.op = "delete"
    /\ mut.item.crostore_id = EmptyStr
    /\ mut.item.platform = "yahoo_auction"
    /\ Len(sheet[crostore_id_column]) >= 1

\* the value of a cell of the sheet: cells below the last value are empty
Value(sh, column, row) ==
    IF row <= Len(sh[column]) THEN sh[column][row] ELSE EmptyStr

\* the number of rows of the sheet that hold a value
Rows(sh) == CHOOSE n \in 0..(MaxRows + 1) :
    /\ \A column \in Columns : Len(sh[column]) <= n
    /\ \E column \in Columns : Len(sh[column]) = n

\* the cell update(item) and delete(item) address: the column of item.platform
\* and the first row whose crostore id cell holds item.crostore_id
TargetCell(sh, p2c, item) ==
    [column |-> column_of(p2c, item.platform),
     row |-> Min({row \in 1..Len(sh[crostore_id_column]) :
                    sh[crostore_id_column][row] = item.crostore_id})]

(***************************************************************************)
(* C12: a successful update(item) makes exactly one update request, which  *)
(* writes item.item_id to the cell at the column of item.platform and the  *)
(* row of item.crostore_id in the crostore id column; every other cell,    *)
(* the crostore id column and the number of rows stay as they were.        *)
(***************************************************************************)
C12_Updated ==
    (mut.state = "finished" /\ mut.op = "update")
    => LET cell == TargetCell(sheet, platform_to_column, mut.item)
       IN  /\ calls.update = <<[cell |-> cell, value |-> mut.item.item_id]>>
           /\ calls.clear = <<>>
           /\ Value(sheet, cell.column, cell.row) = mut.item.item_id

C12_Step ==
    (mut.op = "update" /\ mut.state = "running" /\ mut'.state = "finished")
    => LET cell == TargetCell(sheet, platform_to_column, mut.item)
       IN  /\ \A column \in Columns, row \in 1..(Rows(sheet) + 1) :
                 Value(sheet', column, row) =
                    IF column = cell.column /\ row = cell.row
                    THEN mut.item.item_id
                    ELSE Value(sheet, column, row)
           /\ sheet'[crostore_id_column] = sheet[crostore_id_column]
           /\ Rows(sheet') = Rows(sheet)

C12_UpdateWritesOneCell == []C12_Updated /\ [][C12_Step]_vars

\* an update that wrote a cell of the second row, where the column was empty
C12_Witness ==
    /\ mut.state = "finished"
    /\ mut.op = "update"
    /\ Len(calls.update) = 1
    /\ calls.update[1].cell.row = 2
    /\ sheet[calls.update[1].cell.column][1] = EmptyStr

(***************************************************************************)
(* C13: a successful delete(item) makes exactly one clear request, for the *)
(* cell at the column of item.platform and the row of item.crostore_id in  *)
(* the crostore id column; the row is not removed: the crostore id column  *)
(* and every other cell keep their values and their rows.                  *)
(***************************************************************************)
C13_Cleared ==
    (mut.state = "finished" /\ mut.op = "delete")
    => /\ index(sheet[crostore_id_column], mut.item.crostore_id).found
       /\ LET cell == TargetCell(sheet, platform_to_column, mut.item)
          IN  /\ calls.clear = <<[cell |-> cell]>>
              /\ calls.update = <<>>
              /\ Value(sheet, cell.column, cell.row) = EmptyStr

C13_Step ==
    (mut.op = "delete" /\ mut.state = "running" /\ mut'.state = "finished")
    => LET cell == TargetCell(sheet, platform_to_column, mut.item)
       IN  /\ \A column \in Columns, row \in 1..(Rows(sheet) + 1) :
                 Value(sheet', column, row) =
                    IF column = cell.column /\ row = cell.row
                    THEN EmptyStr
                    ELSE Value(sheet, column, row)
           /\ sheet'[crostore_id_column] = sheet[crostore_id_column]
           /\ Rows(sheet') = Rows(sheet)

C13_DeleteClearsOneCell == []C13_Cleared /\ [][C13_Step]_vars

\* a delete that cleared a cell of the first row, with values in the row below
C13_Witness ==
    /\ mut.state = "finished"
    /\ mut.op = "delete"
    /\ Len(calls.clear) = 1
    /\ calls.clear[1].cell.row = 1
    /\ Len(sheet[calls.clear[1].cell.column]) = 2
    /\ Len(sheet[crostore_id_column]) = 2

\* the rows of a column that hold x
RowsWith(sh, column, x) == {row \in 1..Len(sh[column]) : sh[column][row] = x}

(***************************************************************************)
(* C14: the row used is the first one that matches: iter_related_items     *)
(* uses the lowest row of the column of item.platform that holds           *)
(* item.item_id, update and delete the lowest row of the crostore id       *)
(* column that holds item.crostore_id; a later row with the same value is  *)
(* not used and no exception tells of it.                                  *)
(***************************************************************************)
C14_FirstMatchingRow ==
    /\ (/\ rel.caller = "consumer"
         /\ \/ pc = "related_next"
            \/ rel.state \in {"suspended", "raised"}
            \/ rel.state = "finished"
         /\ Registered(sheet, platform_to_column, rel.item))
        => LET rows == RowsWith(sheet, column_of(platform_to_column, rel.item.platform),
                                rel.item.item_id)
           IN  /\ rel.item_index + 1 \in rows
               /\ \A row \in rows : rel.item_index + 1 <= row
               /\ \A m \in 1..Len(out) :
                     out[m].item.crostore_id =
                        Value(sheet, crostore_id_column, rel.item_index + 1)
               /\ err \in {NoErr, [kind |-> "IndexError", cause |-> "list_index_out_of_range"]}
    /\ (mut.state = "finished" \/ pc = "mutate_write")
        => LET rows == RowsWith(sheet, crostore_id_column, mut.item.crostore_id)
           IN  /\ mut.item_index + 1 \in rows
               /\ \A row \in rows : mut.item_index + 1 <= row
               /\ \A n \in 1..Len(calls.update) : calls.update[n].cell.row = mut.item_index + 1
               /\ \A n \in 1..Len(calls.clear) : calls.clear[n].cell.row = mut.item_index + 1
               /\ err = NoErr

\* two rows hold the item id, with different crostore ids, and the sibling
\* of the upper one was yielded
C14_Witness ==
    /\ rel.state = "suspended"
    /\ Len(out) = 1
    /\ supported(platform_to_column, rel.item.platform)
    /\ Len(sheet[crostore_id_column]) = 2
    /\ Cardinality(RowsWith(sheet, column_of(platform_to_column, rel.item.platform),
                            rel.item.item_id)) = 2
    /\ sheet[crostore_id_column][1] # sheet[crostore_id_column][2]

(***************************************************************************)
(* C15: iter_related_items never changes the sheet, and the same call made *)
(* again with the same item on the unchanged sheet ends as the first call  *)
(* did: the same items in the same order, and the same exception if any.   *)
(***************************************************************************)
C15_SameResult ==
    /\ calls.update = <<>>
    /\ calls.clear = <<>>
    /\ Len(hist) = 1 =>
          /\ rel.state \in {"finished", "raised"} =>
                /\ rel.state = hist[1].state
                /\ OutItems = hist[1].items
                /\ err = hist[1].err
          /\ rel.state = "suspended" =>
                /\ Len(out) <= Len(hist[1].items)
                /\ OutItems = SubSeq(hist[1].items, 1, Len(out))

C15_ReadOnlyAndRepeatable == []C15_SameResult /\ [][sheet' = sheet]_vars

\* the second call ended, with items yielded
C15_Witness ==
    /\ Len(hist) = 1
    /\ rel.state = "finished"
    /\ Len(out) >= 1

(***************************************************************************)
(* C16 as stated: every item iter_related_items(item) yields has the       *)
(* crostore_id of item, and a platform other than item.platform.           *)
(***************************************************************************)
C16_CrostoreIdOfTheInput ==
    \A m \in 1..Len(out) :
        /\ out[m].item.crostore_id = rel.item.crostore_id
        /\ out[m].item.platform # rel.item.platform

(***************************************************************************)
(* C16 amended: every item iter_related_items(item) yields has the         *)
(* crostore id found in the crostore id column at the row of item.item_id, *)
(* whatever item.crostore_id is, and a platform other than item.platform.  *)
(***************************************************************************)
C16_CrostoreIdOfTheRow ==
    \A m \in 1..Len(out) :
        /\ Registered(sheet, platform_to_column, rel.item)
        /\ RowOf(sheet, platform_to_column, rel.item) <= Len(sheet[crostore_id_column])
        /\ out[m].item.crostore_id =
              sheet[crostore_id_column][RowOf(sheet, platform_to_column, rel.item)]
        /\ out[m].item.platform # rel.item.platform

\* an item was yielded whose crostore_id is not the one of the item asked for
C16_Witness ==
    /\ Len(out) >= 1
    /\ rel.item.crostore_id # EmptyStr
    /\ out[1].item.crostore_id # EmptyStr
    /\ out[1].item.crostore_id # rel.item.crostore_id

(***************************************************************************)
(* C17 as stated: each advance of iter_items_to_cancel pulls exactly one   *)
(* message from the mail system; so when the caller holds the n-th item,   *)
(* n messages have been fetched.                                           *)
(***************************************************************************)
C17_OneMessagePerAdvance ==
    (pc = "consumer" /\ core.state = "suspended")
    => Len(calls.get_message) = Len(out)

(***************************************************************************)
(* C17 amended: each advance yields at most one item and then waits for    *)
(* the caller; it fetches no message while the message at hand has items   *)
(* left, and otherwise one message after another until one gives an item;  *)
(* no message is fetched ahead: all fetched messages but the last one have *)
(* been dealt with, and the item the caller holds stems from the last one. *)
(***************************************************************************)
C17_NothingAhead ==
    /\ Len(calls.modify_message) <= Len(calls.get_message)
    /\ Len(calls.get_message) <= Len(calls.modify_message) + 1
    /\ calls.modify_message = SubSeq(calls.get_message, 1, Len(calls.modify_message))
    /\ (pc = "consumer" /\ core.state = "suspended") =>
          /\ Len(calls.get_message) = Len(calls.modify_message) + 1
          /\ out[Len(out)].msg = calls.get_message[Len(calls.get_message)]

C17_Step ==
    /\ Len(out') <= Len(out) + 1
    /\ Len(out') = Len(out) + 1 => (pc' = "consumer" /\ core'.state = "suspended")
    /\ Len(calls'.get_message) <= Len(calls.get_message) + 1

C17_OneItemPerAdvance == []C17_NothingAhead /\ [][C17_Step]_vars

\* the caller holds its first item after an advance that fetched two messages
C17_Witness ==
    /\ pc = "consumer"
    /\ core.state = "suspended"
    /\ Len(out) = 1
    /\ Len(calls.get_message) = 2

(***************************************************************************)
(* C18: an exception raised by the mail system when the next message is    *)
(* pulled, or by the data system when an item is resolved, leaves          *)
(* iter_items_to_cancel as it is, at the advance in which it was raised;   *)
(* the failing call is not made again and the generator is finished: the   *)
(* only step after it is a new call of iter_items_to_cancel.               *)
(***************************************************************************)
C18_Raised ==
    /\ (rel.caller = "core" /\ rel.state = "raised")
          => /\ core.state = "raised"
             /\ err \in {unsupported_platform_error,
                          [kind |-> "IndexError", cause |-> "list_index_out_of_range"]}
    /\ core.state = "raised"
          => /\ pc = "consumer"
             /\ err # NoErr
             /\ err.cause # "to_item"
             /\ err.cause = "query_unsupported_platform"
                   => (/\ err.kind = "ValueError"
                       /\ ~get_sold_mail_query(core.platform).ok
                       /\ calls = NoCalls
                       /\ out = <<>>)
             /\ err.cause # "query_unsupported_platform"
                   => (/\ rel.state = "raised"
                       /\ calls.get_message[Len(calls.get_message)] = ids.messages[ids.i])
    /\ calls.list_message <= 1
    /\ \A a, b \in 1..Len(calls.get_message) :
          calls.get_message[a] = calls.get_message[b] => a = b
    /\ Len(calls.get_column_values)
          <= Len(calls.get_message) * (1 + Len(platform_to_column))

C18_Step == core.state = "raised" => (core'.state = "created" /\ out' = <<>>)

C18_ErrorsReachTheCaller == []C18_Raised /\ [][C18_Step]_vars

\* the data system raised after an item was yielded, with messages left
C18_Witness ==
    /\ core.state = "raised"
    /\ rel.state = "raised"
    /\ err.kind = "IndexError"
    /\ Len(out) >= 1
    /\ ids.i < Len(ids.messages)

\* x and the item asked for stand in one and the same row of sh
InOneRow(sh, p2c, asked, x) ==
    \E row \in 1..Rows(sh) :
        /\ Value(sh, column_of(p2c, asked.platform), row) = asked.item_id
        /\ Value(sh, column_of(p2c, x.platform), row) = x.item_id
        /\ Value(sh, crostore_id_column, row) = x.crostore_id

(***************************************************************************)
(* C19: one resolution reads the crostore id column and then the column of *)
(* each platform, one request each; when nobody edits the sheet between    *)
(* these reads every item yielded has its item_id and its crostore_id from *)
(* one row, the row of the item asked for.  (That an edit between two      *)
(* reads can give an item that is in no row, neither of the sheet before   *)
(* the edit nor of the sheet after it, is what the witness shows.)         *)
(***************************************************************************)
C19_AlignedWithoutWrites ==
    /\ Len(calls.get_column_values) <= 1 + Len(platform_to_column)
    /\ \A n \in 1..Len(calls.get_column_values) :
          calls.get_column_values[n] =
             IF n = 1 THEN crostore_id_column ELSE platform_to_column[n - 1].column
    /\ Len(rel.data) = IF calls.get_column_values = <<>> THEN 0
                       ELSE Len(calls.get_column_values) - 1
    /\ hist = <<>> =>
          \A m \in 1..Len(out) :
              InOneRow(sheet, platform_to_column, rel.item, out[m].item)

\* the sheet was edited between two reads and an item was yielded that is in
\* no row of the sheet, neither before the edit nor after it
C19_Witness ==
    /\ Len(hist) = 1
    /\ Len(out) = 1
    /\ \A row \in 1..Rows(hist[1].before) :
          ~(/\ Value(hist[1].before, column_of(platform_to_column, out[1].item.platform),
                     row) = out[1].item.item_id
            /\ Value(hist[1].before, crostore_id_column, row) = out[1].item.crostore_id)
    /\ \A row \in 1..Rows(sheet) :
          ~(/\ Value(sheet, column_of(platform_to_column, out[1].item.platform),
                     row) = out[1].item.item_id
            /\ Value(sheet, crostore_id_column, row) = out[1].item.crostore_id)

(***************************************************************************)
(* C20: over successive runs on one mailbox and one sheet, wherever the    *)
(* caller stopped in a run, no item is yielded twice for one message,      *)
(* neither within a run nor in two runs.                                   *)
(***************************************************************************)
C20_NoSiblingOfferedTwice ==
    \A a, b \in 1..Len(out) : a # b => out[a] # out[b]

\* the positions of body where an occurrence of marker ends and a character
\* of [a-zA-Z0-9] follows: the positions of that character
Occurrences(marker, body) ==
    {p \in (Len(marker) + 1)..Len(body) :
        /\ \A j \in 1..Len(marker) : body[p - Len(marker) - 1 + j] = marker[j]
        /\ body[p] \in Alnum}

\* text is the run of [a-zA-Z0-9] characters of body that starts at p
IsRunAt(text, body, p) ==
    /\ Len(text) >= 1
    /\ p + Len(text) - 1 <= Len(body)
    /\ \A j \in 1..Len(text) : body[p + j - 1] = text[j] /\ text[j] \in Alnum
    /\ p + Len(text) <= Len(body) => body[p + Len(text)] \notin Alnum

(***************************************************************************)
(* C21: for both platform variants to_item returns an item of the          *)
(* platform of the message, with an empty crostore_id, whose item_id is    *)
(* the run of [a-zA-Z0-9] characters right after the left-most occurrence  *)
(* of the marker of the platform that is followed by such a character; it  *)
(* raises ItemIdNotFoundError exactly when the body has no such            *)
(* occurrence, and so never returns an item with an empty item_id.         *)
(***************************************************************************)
C21_ToItemTakesTheLeftMostRun ==
    hist # <<>> =>
        LET found == Occurrences(item_id_pattern(message.platform), message.body)
            r == hist[1]
        IN  /\ r.ok <=> found # {}
            /\ ~r.ok => r.error = "ItemIdNotFoundError"
            /\ r.ok =>
                  /\ r.error = ""
                  /\ r.item.platform = message.platform
                  /\ r.item.crostore_id = EmptyStr
                  /\ r.item.item_id # EmptyStr
                  /\ \E p \in found :
                        /\ \A q \in found : p <= q
                        /\ IsRunAt(r.item.item_id, message.body, p)

\* a body with two occurrences of the marker, each followed by an id: the
\* first id is returned
C21_Witness ==
    /\ hist # <<>>
    /\ message.platform = "yahoo_auction"
    /\ message.body = item_id_pattern("yahoo_auction") \o <<"A">>
                        \o item_id_pattern("yahoo_auction") \o <<"0">>
    /\ hist[1].ok
    /\ hist[1].item.item_id = <<"A">>

\* is_accessible_to_userpage has ended, for platform or for any platform
AccessEnded == mut.op = "is_accessible_to_userpage" /\ mut.state \in {"returned", "raised"}

\* the last call made on the driver, if there was one
LastCall == IF hist = <<>> THEN DriverCall("", "", "") ELSE hist[Len(hist)]

\* the calls of one kind made on the driver
CallsOf(call) == {n \in 1..Len(hist) : hist[n].call = call}

\* the outcome of the wait for the login redirect that follows the opening
\* of the user page: the first wait
FirstWait ==
    IF CallsOf("wait") = {} THEN "(no wait)" ELSE hist[Min(CallsOf("wait"))].outcome

\* the wait that follows the click of the re-login was made and is the last call
AfterTheClick ==
    /\ Cardinality(CallsOf("wait")) = 2
    /\ LastCall.call = "wait"

(***************************************************************************)
(* C22 as stated: for every platform, whenever the redirect to the login   *)
(* page is observed within the timeout, is_accessible_to_userpage returns  *)
(* false.                                                                  *)
(***************************************************************************)
C22_RedirectGivesFalse ==
    (AccessEnded /\ mut.state = "returned" /\ FirstWait = "matched") => out = <<FALSE>>

(***************************************************************************)
(* C22: is_accessible_to_userpage never raises for the outcome of a wait,  *)
(* the login redirect or the timeout: a wait that times out gives true;    *)
(* when the wait after the user page sees the login redirect, Mercari      *)
(* gives false, and Yahoo!Auction gives false unless its re-login attempt  *)
(* succeeds; false is returned only after that redirect was seen.  (What   *)
(* leaves the method during a wait is a failure of the driver other than   *)
(* the timeout.)                                                           *)
(***************************************************************************)
C22_WaitOutcomeBecomesTheResult ==
    AccessEnded =>
        /\ (mut.state = "raised" /\ LastCall.call = "wait")
                => (LastCall.outcome = "WebDriverException" /\ err.kind = "WebDriverException")
        /\ LastCall.call = "wait" /\ LastCall.outcome = "TimeoutException"
                => out = <<TRUE>>
        /\ mut.item.platform = "mercari" /\ FirstWait = "matched" => out = <<FALSE>>
        /\ out = <<FALSE>> => FirstWait = "matched"

\* the wait of Mercari timed out and true was returned
C22_Witness ==
    /\ AccessEnded
    /\ mut.item.platform = "mercari"
    /\ FirstWait = "TimeoutException"
    /\ out = <<TRUE>>

(***************************************************************************)
(* C23: Yahoo!Auction is_accessible_to_userpage: no login redirect within  *)
(* the timeout gives true and nothing is done for a re-login; a login      *)
(* redirect starts one re-login attempt (the home page is opened once, the *)
(* login button clicked at most once); the attempt gives true when no      *)
(* login redirect follows the click within the timeout, false when the     *)
(* login button is missing or the click leads to the login page again.     *)
(* (An attempt whose driver.implicitly_wait times out ends before the home *)
(* page is asked for.)                                                     *)
(***************************************************************************)
C23_DecisionSequence ==
    (AccessEnded /\ mut.state = "returned" /\ mut.item.platform = "yahoo_auction") =>
        /\ FirstWait = "TimeoutException" =>
              /\ out = <<TRUE>>
              /\ LastCall = DriverCall("wait", "login", "TimeoutException")
              /\ Cardinality(CallsOf("get")) = 1
              /\ CallsOf("find_element") \cup CallsOf("execute_script") = {}
        /\ FirstWait = "matched" =>
              /\ Cardinality(CallsOf("implicitly_wait")) = 2
              /\ Cardinality({n \in CallsOf("get") : hist[n].arg = "home"}) =
                    IF LastCall.call = "implicitly_wait" THEN 0 ELSE 1
              /\ Cardinality(CallsOf("find_element")) <= 1
              /\ Cardinality(CallsOf("execute_script")) <= 1
              /\ \A n \in CallsOf("execute_script") :
                      hist[n - 1] = DriverCall("find_element", "login_button", "found")
        /\ (AfterTheClick /\ LastCall.outcome = "TimeoutException") => out = <<TRUE>>
        /\ (AfterTheClick /\ LastCall.outcome = "matched") => out = <<FALSE>>
        /\ LastCall.outcome = "NoSuchElementException" => out = <<FALSE>>
        /\ out = <<FALSE>> =>
              \/ LastCall.outcome = "NoSuchElementException"
              \/ (AfterTheClick /\ LastCall.outcome = "matched")

\* the re-login succeeded: redirect, home page, button found, click, no redirect
C23_Witness ==
    /\ AccessEnded
    /\ mut.item.platform = "yahoo_auction"
    /\ FirstWait = "matched"
    /\ AfterTheClick
    /\ hist[Len(hist) - 1] = DriverCall("execute_script", "click", "done")
    /\ LastCall = DriverCall("wait", "login", "TimeoutException")
    /\ out = <<TRUE>>

(***************************************************************************)
(* C24: every way cancel can fail is signalled as ItemNotCanceledError:    *)
(* no other exception type leaves cancel, the timeout of the wait that     *)
(* follows the click included.                                             *)
(***************************************************************************)
C24_OnlyItemNotCanceledError ==
    (mut.op = "cancel" /\ mut.state = "raised") => err.kind = "ItemNotCanceledError"

\* s is the beginning of t
IsPrefix(s, t) == Len(s) <= Len(t) /\ \A n \in 1..Len(s) : s[n] = t[n]

(***************************************************************************)
(* C25: iter_sold_message_ids lists the unlabelled sold messages once and  *)
(* gets the done label once; the ids it yields are the listed ones in      *)
(* listing order; message i is labelled after its id was yielded and       *)
(* before the id of message i+1 is yielded, so the labels are added in     *)
(* listing order and never to a message whose id was not yet yielded.      *)
(* (Each yielded id is fetched by iter_sold_messages: calls.get_message is *)
(* the sequence of the ids yielded.)                                       *)
(***************************************************************************)
C25_LabelFollowsTheYield ==
    /\ calls.list_message <= 1
    /\ calls.list_label <= 1
    /\ ids.state \in {"suspended", "finished"} =>
            (calls.list_message = 1 /\ calls.list_label = 1)
    /\ pc = "get_message" => Len(calls.get_message) = ids.i - 1
    /\ IsPrefix(calls.get_message, ids.messages)
    /\ IsPrefix(calls.modify_message, ids.messages)
    /\ Len(calls.modify_message) <= ids.i
    /\ ids.state = "suspended" => Len(calls.modify_message) = ids.i - 1
    /\ \A n \in 1..Len(ids.messages) :
            (mail[ids.messages[n]].labelIds \cap DoneLabelIds(labels) # {})
                <=> n <= Len(calls.modify_message)

\* the third id was yielded: the first two messages are labelled, the third
\* is not
C25_Witness ==
    /\ Len(ids.messages) = 3
    /\ ids.i = 3
    /\ Len(calls.get_message) = 3
    /\ calls.modify_message = SubSeq(ids.messages, 1, 2)
    /\ mail[ids.messages[3]].labelIds = {}

\* the positions of the labels named done_label_name
DoneLabels(lbls) == {n \in 1..Len(lbls) : lbls[n].name = done_label_name}

\* what holds once get_donelabel has returned: its label is the first one
\* with the name, and no second one with the name exists
C26_Returned ==
    /\ Cardinality(DoneLabels(labels)) <= 1
    /\ calls.create_label <= 1
    /\ ids.state \in {"suspended", "finished"} =>
          /\ DoneLabels(labels) # {}
          /\ ids.donelabel = labels[Min(DoneLabels(labels))].id

\* a step of get_donelabel: a label is created only when none has the name,
\* and then one label with the name is added and nothing else changes
C26_Step ==
    /\ DoneLabels(labels) # {} => (labels' = labels /\ calls'.create_label <= calls.create_label)
    /\ labels' # labels =>
          /\ DoneLabels(labels) = {}
          /\ Len(labels') = Len(labels) + 1
          /\ SubSeq(labels', 1, Len(labels)) = labels
          /\ labels'[Len(labels')].name = done_label_name

(***************************************************************************)
(* C26: get_donelabel returns the first label named done_label_name and    *)
(* creates nothing when there is one; it creates a label with that name    *)
(* only when there is none; so the calls made one after the other on one   *)
(* mailbox create at most one done label and each returns a label with     *)
(* that name.                                                              *)
(***************************************************************************)
C26_AtMostOneDoneLabel == []C26_Returned /\ [][C26_Step]_vars

\* the second call on a mailbox with the done label: nothing is created
C26_Witness ==
    /\ runs = 2
    /\ ids.state \in {"suspended", "finished"}
    /\ calls.list_label = 1
    /\ calls.create_label = 0
    /\ labels[ids.donelabel].name = done_label_name

\* message n carries the done label
Labelled(n) == mail[n].labelIds \cap DoneLabelIds(labels) # {}

\* the ids a run for platform would list now
ListedNow(platform) ==
    LET listed == list_message(mail, labels, get_sold_mail_query(platform))
    IN  {listed[n] : n \in 1..Len(listed)}

(***************************************************************************)
(* C27: in the pipeline a message is labelled only after the consumer got  *)
(* every sibling of it and pulled once more: while the consumer holds a    *)
(* sibling of m, m is unlabelled; when the consumer stops there, or the    *)
(* mapping store raises while m is resolved, m stays unlabelled and the    *)
(* next run lists it again.                                                *)
(***************************************************************************)
C27_LabelWaitsForTheNextPull ==
    /\ IsPrefix(ExpectedOut(ids.messages, Len(calls.modify_message)), out)
    /\ \A j \in 1..Len(out) :
            (\E n \in 1..Len(calls.modify_message) : calls.modify_message[n] = out[j].msg)
                => j <= Len(ExpectedOut(ids.messages, Len(calls.modify_message)))
    /\ (pc = "consumer" /\ core.state = "suspended") =>
            /\ ids.state = "suspended"
            /\ out[Len(out)].msg = ids.messages[ids.i]
            /\ ~Labelled(ids.messages[ids.i])
    /\ (pc = "consumer" /\ core.state \in {"closed", "raised"} /\ ids.state = "suspended") =>
            /\ ~Labelled(ids.messages[ids.i])
            /\ ids.messages[ids.i] \in ListedNow(core.platform)

\* the consumer stopped after the first of the two siblings of a message
C27_Witness ==
    /\ pc = "consumer"
    /\ core = [state |-> "closed", platform |-> "mercari"]
    /\ platform_to_column = ThreePlatforms
    /\ ids.state = "suspended"
    /\ Len(out) = 1
    /\ out[1].msg = ids.messages[ids.i]
    /\ ~Labelled(ids.messages[ids.i])

\* the elements of a sequence
Range(seq) == {seq[n] : n \in 1..Len(seq)}

(***************************************************************************)
(* C28: every message the pipeline advanced past is labelled, whatever     *)
(* became of it (parsed or not, registered in the store or not), and a     *)
(* labelled message is not listed by a later run and nothing is yielded    *)
(* for it, even after the store gained the row of its item.                *)
(***************************************************************************)
C28_PassedIsLabelledForGood ==
    /\ \A n \in 1..Len(ids.messages) :
            n < ids.i => Labelled(ids.messages[n])
    /\ \A n \in 1..Len(mail) :
            (Labelled(n) /\ n \notin Range(calls.modify_message)) =>
                /\ n \notin Range(ids.messages)
                /\ n \notin ListedNow(mail[n].platform)
                /\ \A j \in 1..Len(out) : out[j].msg # n

\* the message for A008 was passed and labelled by the first run while the
\* sheet had no row for A008; the row was added; the second run ended
\* without an item
C28_Witness ==
    /\ runs = 2
    /\ pc = "consumer"
    /\ core = [state |-> "finished", platform |-> "mercari"]
    /\ Len(sheet[crostore_id_column]) = 2
    /\ out = <<>>
    /\ calls.list_message = 1
    /\ \E n \in 1..Len(mail) :
          /\ mail[n].platform = "mercari"
          /\ mail[n].decodable
          /\ to_item(create_message("mercari", EmptyStr, mail[n].body)).item.item_id = A008
          /\ hist[n].modified = 1
          /\ n \notin Range(calls.modify_message)
          /\ Registered(sheet, platform_to_column, create_item("mercari", A008, EmptyStr))

\* the row of the cell the last request of update or delete addressed
WrittenRow ==
    IF mut.op = "update"
    THEN calls.update[Len(calls.update)].cell.row
    ELSE calls.clear[Len(calls.clear)].cell.row

\* no value other than the empty one stands twice in the column
Unique(cells) ==
    \A a, b \in 1..Len(cells) : (a # b /\ cells[a] # EmptyStr) => cells[a] # cells[b]

(***************************************************************************)
(* C29 as stated: update and delete read the crostore id column and write  *)
(* in a request of its own; without a write of another user in between the *)
(* cell written is in the row whose crostore id is item.crostore_id; when  *)
(* another user inserts or removes a row above in between, the write lands *)
(* in a row whose crostore id differs from item.crostore_id.               *)
(***************************************************************************)
C29_ShiftedWriteMissesTheRow ==
    mut.state = "finished" =>
        /\ calls.get_column_values = <<crostore_id_column>>
        /\ Len(calls.update) + Len(calls.clear) = 1
        /\ WrittenRow = mut.item_index + 1
        /\ hist = <<>> => Value(sheet, crostore_id_column, WrittenRow) = mut.item.crostore_id
        /\ hist # <<>> => Value(sheet, crostore_id_column, WrittenRow) # mut.item.crostore_id

(***************************************************************************)
(* C29: the same, for a crostore id column that holds no crostore id       *)
(* twice, neither before the other user's edit nor after it.  (The row is  *)
(* the first one with item.crostore_id: with the id in two rows the        *)
(* shifted write can land in a row that holds it too.)                     *)
(***************************************************************************)
C29_ShiftedWriteMissesTheUniqueRow ==
    mut.state = "finished" =>
        /\ calls.get_column_values = <<crostore_id_column>>
        /\ Len(calls.update) + Len(calls.clear) = 1
        /\ WrittenRow = mut.item_index + 1
        /\ hist = <<>> => Value(sheet, crostore_id_column, WrittenRow) = mut.item.crostore_id
        /\ (/\ hist # <<>>
            /\ Unique(hist[1].before[crostore_id_column])
            /\ Unique(sheet[crostore_id_column]))
              => Value(sheet, crostore_id_column, WrittenRow) # mut.item.crostore_id

\* a row was inserted on top between the read and the write of update: the
\* item id was written into the row of another crostore id
C29_Witness ==
    /\ mut.state = "finished"
    /\ mut.op = "update"
    /\ hist # <<>>
    /\ Len(sheet[crostore_id_column]) = Len(hist[1].before[crostore_id_column]) + 1
    /\ Unique(sheet[crostore_id_column])
    /\ mut.item = create_item("mercari", A007, c00007)
    /\ WrittenRow = 1
    /\ sheet[crostore_id_column][1] = c00008
    /\ sheet["B"][1] = A007

(***************************************************************************)
(* update followed by a resolution.                                        *)
(***************************************************************************)
\* the listings of the row update(item) wrote in: the item itself, and for
\* every other platform the id that stands in its column, if there is one
ListingsOfTheRow ==
    {mut.item} \cup
    {create_item(platform_to_column[n].platform,
                 Value(sheet, platform_to_column[n].column, mut.item_index + 1),
                 EmptyStr) :
        n \in {k \in 1..Len(platform_to_column) :
                 /\ platform_to_column[k].platform # mut.item.platform
                 /\ Value(sheet, platform_to_column[k].column, mut.item_index + 1)
                        # EmptyStr}}

\* after update(item) has returned, ds.iter_related_items(asked) is called
\* with a listing of the row
Resolve(asked) ==
    /\ pc = "consumer"
    /\ mut.state = "finished"
    /\ mut.op = "update"
    /\ rel.state = "none"
    /\ rel' = [RelNone EXCEPT !.state = "created", !.caller = "consumer", !.item = asked]
    /\ calls' = NoCalls
    /\ UNCHANGED <<mail, labels, sheet, platform_to_column, pc, core, ids, message,
                   mut, out, err, hist, runs>>

\* the items update is called with: those of the store, and listings whose
\* item id is a text of digits
RoundTripItems(p2c) ==
    StoreItems(p2c) \cup
    {create_item(platform, N007, crostore_id) :
        platform \in {"mercari", "yahoo_auction"}, crostore_id \in CrostoreIds(p2c)}

NextRoundTrip ==
    \/ \E item \in RoundTripItems(platform_to_column) : update(item)
    \/ MutateRead
    \/ MutateWrite
    \/ \E asked \in ListingsOfTheRow : Resolve(asked)
    \/ AdvanceRelated
    \/ RelatedSteps

\* one update, then one resolution from a listing of the row written
SpecRoundTrip == InitStore /\ [][NextRoundTrip]_vars

\* the resolution that followed the update has ended
Resolved == mut.state = "finished" /\ rel.state \in {"finished", "raised"}

\* what the resolution yielded for the platform of the item updated
YieldedFor(platform) == {j \in 1..Len(out) : out[j].item.platform = platform}

\* the resolution gave the item updated back: one item for its platform,
\* equal to it, or, asked with the item itself, the row update wrote in
RoundTrip ==
    /\ rel.item.platform # mut.item.platform =>
          /\ Cardinality(YieldedFor(mut.item.platform)) = 1
          /\ \A j \in YieldedFor(mut.item.platform) : out[j].item = mut.item
    /\ rel.item = mut.item => rel.item_index = mut.item_index

(***************************************************************************)
(* C30: on a store with unique crostore ids, after update(item) succeeded, *)
(* iter_related_items called with the listing of another platform found in *)
(* the same row yields for item.platform an item equal to item, and        *)
(* iter_related_items(item) locates that row.                              *)
(***************************************************************************)
C30_RoundTrip ==
    (Resolved /\ Unique(sheet[crostore_id_column])) => RoundTrip

====
